---- MODULE Spec2Model ----
(***************************************************************************)
(* Retrieval pipeline of the traffic-accident advisor:                     *)
(*   - the keyword matcher (EnhancedTrafficAdvisor._search_similar_cases), *)
(*   - the persisted vector index (DocumentProcessor over Chroma): build,  *)
(*     load and query,                                                     *)
(*   - the advisor that sits on top of it (TrafficAccidentAdvisor).        *)
(*                                                                         *)
(* Text is a sequence of characters.  One character of the Korean source   *)
(* text (one Hangul syllable) is written here as its romanisation, so the  *)
(* word "jik","jin" is the two-character string 직진; " " is the space.    *)
(***************************************************************************)
EXTENDS Integers, Sequences, FiniteSets, TLC

\* ------------------------------------------------------------------------
\* Bounds of the model
\* ------------------------------------------------------------------------

\* Longest corpus (number of case records in accident_cases.json).
MaxCases == 4

\* Longest corpus that is indexed into the vector store.
MaxIndexedCases == 3

\* Most builds started over one persist directory.
MaxBuilds == 2

\* Longest text put to the chunker.
MaxTextLen == 5

\* Most exchanges kept in one conversation memory.
MaxExchanges == 4

\* Last tick of the clock, and most requests of one GeminiClient.
MaxTime == 8
MaxRequests == 3

\* The longest conversation of a front end, in messages, and the length of
\* the longest accident description of the corpus.
MaxMessages == 12
MaxEnhancedMessages == 8
LongDescriptionLen == 104

\* The longest conversation in which the evidence of a prompt is examined.
MaxEvidenceMessages == 4

\* Longest text put to clean_text, and longest fault-ratio string put to
\* extract_fault_ratio (besides the example of the tests).
MaxCleanLen == 4
MaxFaultLen == 4

\* ------------------------------------------------------------------------
\* Text
\* ------------------------------------------------------------------------

Min(a, b) == IF a <= b THEN a ELSE b

\* Python's `kw in text` on str: kw occurs as a contiguous substring.
Contains(text, kw) ==
    \E i \in 1..(Len(text) - Len(kw) + 1) : SubSeq(text, i, i + Len(kw) - 1) = kw

\* Python's s[:n].
Prefix(s, n) == SubSeq(s, 1, Min(n, Len(s)))

\* The vocabulary of _search_similar_cases, in the order of the source list:
\* 직진 좌회전 우회전 신호등 교차로 녹색 적색 황색 비보호 화살표 점멸 후진
\* 차선변경 주차장.
keywords ==
    << <<"jik", "jin">>,
       <<"jwa", "hoe", "jeon">>,
       <<"u", "hoe", "jeon">>,
       <<"sin", "ho", "deung">>,
       <<"gyo", "cha", "ro">>,
       <<"nok", "saek">>,
       <<"jeok", "saek">>,
       <<"hwang", "saek">>,
       <<"bi", "bo", "ho">>,
       <<"hwa", "sal", "pyo">>,
       <<"jeom", "myeol">>,
       <<"hu", "jin">>,
       <<"cha", "seon", "byeon", "gyeong">>,
       <<"ju", "cha", "jang">> >>

\* ------------------------------------------------------------------------
\* The corpus file data/cases/accident_cases.json
\* ------------------------------------------------------------------------

\* A case record is a Python dict: a function from its keys to their values.
\* The crawler writes case_id, vehicle_A_situation, vehicle_B_situation,
\* accident_description and fault_ratio (and three bookkeeping keys that no
\* consumer reads, left out here).
CaseRecord(id, a, b, d, f) ==
    [case_id |-> id, vehicle_A_situation |-> a, vehicle_B_situation |-> b,
     accident_description |-> d, fault_ratio |-> f]

\* Records the corpus is drawn from.  A1 is the record of the spec's scenario
\* (직진 / 좌회전 / 교차로 충돌, 30:70).  A5 is a partial record: the corpus
\* is externally sourced, and this one lacks vehicle_A_situation.
RecordPool ==
    { CaseRecord("A1", <<"jik", "jin">>, <<"jwa", "hoe", "jeon">>,
                 <<"gyo", "cha", "ro", " ", "chung", "dol">>, "30:70"),
      CaseRecord("A2", <<"bi", "bo", "ho", " ", "jwa", "hoe", "jeon">>,
                 <<"jik", "jin">>,
                 <<"sin", "ho", "deung", " ", "gyo", "cha", "ro">>, "80:20"),
      CaseRecord("A3", <<"hu", "jin">>, <<"jik", "jin">>,
                 <<"ju", "cha", "jang", " ", "chung", "dol">>, "70:30"),
      CaseRecord("A4", <<"u", "hoe", "jeon">>, <<"jik", "jin">>,
                 <<"gyo", "cha", "ro">>, "60:40"),
      [case_id |-> "A5", vehicle_B_situation |-> <<"jik", "jin">>,
       accident_description |-> <<"gyo", "cha", "ro">>, fault_ratio |-> "50:50"] }

\* case_id is unique within a corpus.
Corpora ==
    { c \in UNION { [1..n -> RecordPool] : n \in 0..MaxCases } :
        \A i, j \in DOMAIN c : i # j => c[i].case_id # c[j].case_id }

\* User inputs: 좌회전 중 충돌 (the scenario's query); 충돌 사고 (no
\* vocabulary term); 교차로 직진 좌회전; 후진; the empty input; 직 진 (the
\* characters of a term, separated: not the term).
Queries ==
    { <<"jwa", "hoe", "jeon", " ", "jung", " ", "chung", "dol">>,
      <<"chung", "dol", " ", "sa", "go">>,
      <<"gyo", "cha", "ro", " ", "jik", "jin", " ", "jwa", "hoe", "jeon">>,
      <<"hu", "jin">>,
      << >>,
      <<"jik", " ", "jin">> }

\* ------------------------------------------------------------------------
\* State
\* ------------------------------------------------------------------------

VARIABLES
    cases_file,      \* data/cases/accident_cases.json: the corpus on disk
    case_data,       \* EnhancedTrafficAdvisor.case_data: the corpus, a list of dicts
    kw_call,         \* the last _search_similar_cases call and what it gave
    store,           \* the persisted Chroma collection under data/chroma_db
    next_uuid,       \* the ids handed out so far (uuid4 never repeats)
    embed_ok,        \* the embedding service answers
    db_broken,       \* the persist directory cannot be opened (corrupted)
    dp_vectorstore,  \* DocumentProcessor.vectorstore: "None" or "Chroma"
    advisor,         \* TrafficAccidentAdvisor: vectorstore, qa_chain
    call,            \* the last retrieval call of the session and what it gave
    vector_failed,   \* history: a vector query of this session has failed
    pc,              \* per builder: where its build stands
    pending,         \* per builder: the chunks from_documents has yet to add
    build_ids,       \* per builder: the ids from_documents generated for this build
    hist,            \* history of the builds: completed, dirty, first_build
    load_call,       \* the last load_accident_cases call and what it gave
    chunk_call,      \* the last split_text call and what it gave
    kind,            \* the advisor class the session holds
    memory,          \* advisor.memory.chat_memory.messages
    sess_call,       \* the last advisory call of the session and what it gave
    exchanges,       \* history: the (user, assistant) pairs of the successful
                     \* calls since the memory was last cleared, in call order
    now,             \* time.time(), in ticks
    last_request_time, \* GeminiClient.last_request_time
    gem_call,        \* the last GeminiClient call and what it returned
    requests,        \* history: the times at which the client issued a request
                     \* to the completion or vision service
    img_call,        \* the last consultation with an uploaded image, and what
                     \* the analyzer and the advisor made of it
    util_call        \* the last call of a function of utils.py and what it gave

kwVars == <<case_data, kw_call>>
envVars == <<store, next_uuid, embed_ok, db_broken>>
retrVars == <<dp_vectorstore, advisor, call, vector_failed>>
buildVars == <<pc, pending, build_ids, hist>>
loadVars == <<load_call>>
chunkVars == <<chunk_call>>
sessVars == <<kind, memory, sess_call, exchanges>>
paceVars == <<now, last_request_time, gem_call, requests>>
imageVars == <<img_call>>
textVars == <<util_call>>
restVars == <<loadVars, chunkVars, sessVars, paceVars, imageVars, textVars>>
vars == <<cases_file, case_data, kw_call, store, next_uuid, embed_ok, db_broken,
          dp_vectorstore, advisor, call, vector_failed, pc, pending, build_ids, hist,
          restVars>>

\* ------------------------------------------------------------------------
\* EnhancedTrafficAdvisor._search_similar_cases
\* ------------------------------------------------------------------------

\* user_keywords = [kw for kw in keywords if kw in user_input]
UserKeywordsAll(user_input) == keywords
user_keywords(user_input) ==
    SelectSeq(keywords, LAMBDA kw : Contains(user_input, kw))

\* The keys case_text reads; a dict without one of them raises KeyError.
CaseTextKeys == {"vehicle_A_situation", "vehicle_B_situation", "accident_description"}

\* case_text = f"{A} {B} {description}"
CaseTextNoDescription(case) ==
    case.vehicle_A_situation \o <<" ">> \o case.vehicle_B_situation \o <<" ">>
case_text(case) ==
    case.vehicle_A_situation \o <<" ">> \o case.vehicle_B_situation
        \o <<" ">> \o case.accident_description

\* score = 0; for keyword in user_keywords: if keyword in case_text: score += 1
RECURSIVE case_score(_, _, _)
case_score(ukw, text, i) ==
    IF i > Len(ukw) THEN 0
    ELSE (IF Contains(text, ukw[i]) THEN 1 ELSE 0) + case_score(ukw, text, i + 1)

\* case['similarity_score'] = score: the dict gains (or overwrites) the key.
SetItemIfAbsent(d, k, v) ==
    [x \in DOMAIN d \cup {k} |-> IF x \in DOMAIN d THEN d[x] ELSE v]
SetItem(d, k, v) == [x \in DOMAIN d \cup {k} |-> IF x = k THEN v ELSE d[x]]

\* The loop over self.case_data.  similar_cases holds references to the dicts
\* of case_data (their positions); the loop stops with raised when a record
\* lacks a key of case_text, leaving the scores it has already written.
RECURSIVE scan_cases(_, _, _, _)
scan_cases(data, ukw, i, similar) ==
    IF i > Len(data)
    THEN [case_data |-> data, similar_cases |-> similar, raised |-> FALSE]
    ELSE IF ~(CaseTextKeys \subseteq DOMAIN data[i])
    THEN [case_data |-> data, similar_cases |-> similar, raised |-> TRUE]
    ELSE LET score == case_score(ukw, case_text(data[i]), 1)
         IN  IF score > 0
             THEN scan_cases([data EXCEPT ![i] = SetItem(@, "similarity_score", score)],
                             ukw, i + 1, Append(similar, i))
             ELSE scan_cases(data, ukw, i + 1, similar)

\* similar_cases.sort(key=lambda x: x['similarity_score'], reverse=True):
\* list.sort is stable, also with reverse=True, so an element goes behind
\* every element whose score is at least its own.
InsertFront(data, sorted, x) ==
    LET ahead == Cardinality({ j \in 1..Len(sorted) :
                     data[sorted[j]].similarity_score > data[x].similarity_score })
    IN  SubSeq(sorted, 1, ahead) \o <<x>> \o SubSeq(sorted, ahead + 1, Len(sorted))
InsertStable(data, sorted, x) ==
    LET ahead == Cardinality({ j \in 1..Len(sorted) :
                     data[sorted[j]].similarity_score >= data[x].similarity_score })
    IN  SubSeq(sorted, 1, ahead) \o <<x>> \o SubSeq(sorted, ahead + 1, Len(sorted))

RECURSIVE sort_by_score(_, _, _, _)
sort_by_score(data, similar, i, sorted) ==
    IF i > Len(similar) THEN sorted
    ELSE sort_by_score(data, similar, i + 1, InsertStable(data, sorted, similar[i]))

\* return similar_cases[:3]
TopCases == 3

\* The whole method: what it returns (result: references into case_data),
\* whether it raised instead, and case_data as it leaves it.
search_similar_cases_kw(data, user_input) ==
    IF data = << >>
    THEN [case_data |-> data, result |-> << >>, raised |-> FALSE]
    ELSE LET ukw == user_keywords(user_input)
         IN  IF ukw = << >>
             THEN [case_data |-> data, result |-> << >>, raised |-> FALSE]
             ELSE LET s == scan_cases(data, ukw, 1, << >>)
                  IN  IF s.raised
                      THEN [case_data |-> s.case_data, result |-> << >>, raised |-> TRUE]
                      ELSE [case_data |-> s.case_data,
                            result |-> Prefix(sort_by_score(s.case_data, s.similar_cases,
                                                            1, << >>), TopCases),
                            raised |-> FALSE]

\* ------------------------------------------------------------------------
\* DocumentProcessor: documents, the persisted collection, load and query
\* ------------------------------------------------------------------------

\* The keys load_accident_cases reads from every record.
DocumentKeys ==
    {"case_id", "vehicle_A_situation", "vehicle_B_situation",
     "accident_description", "fault_ratio"}

\* One Document of load_accident_cases: the fields in the template's order
\* (each label of the template is one token here), and the metadata.
Document(case) ==
    [page_content |->
         <<"sago yuhyeong: ", case.case_id, "\n", "\n", "charyang A sanghwang:", "\n">>
           \o case.vehicle_A_situation
           \o <<"\n", "\n", "charyang B sanghwang:", "\n">>
           \o case.vehicle_B_situation
           \o <<"\n", "\n", "sago seolmyeong:", "\n">>
           \o case.accident_description
           \o <<"\n", "\n", "gwasil biyul: ", case.fault_ratio>>,
     metadata |-> [source |-> "accident_case", case_id |-> case.case_id,
                   fault_ratio |-> case.fault_ratio, type |-> "panrye"]]

\* load_accident_cases: the loop sits inside one try, so a record that lacks
\* a key ends the whole load with [] (the except returns the empty list).
load_accident_cases(cases) ==
    IF \E i \in 1..Len(cases) : ~(DocumentKeys \subseteq DOMAIN cases[i])
    THEN << >>
    ELSE [i \in 1..Len(cases) |-> Document(cases[i])]

\* FixedDocumentProcessor.load_accident_cases (fix_vectordb.py): the same
\* loop in one try, with its own template and metadata.
FixedDocument(case) ==
    [page_content |->
         <<"sago yuhyeong: ", case.case_id, "\n", "\n", "charyang A sanghwang: ">>
           \o case.vehicle_A_situation
           \o <<"\n", "charyang B sanghwang: ">>
           \o case.vehicle_B_situation
           \o <<"\n", "\n", "sago seolmyeong: ">>
           \o case.accident_description
           \o <<"\n", "gwasil biyul: ", case.fault_ratio>>,
     metadata |-> [case_id |-> case.case_id, fault_ratio |-> case.fault_ratio,
                   source |-> "accident_case"]]

fixed_load_accident_cases(cases) ==
    IF \E i \in 1..Len(cases) : ~(DocumentKeys \subseteq DOMAIN cases[i])
    THEN << >>
    ELSE [i \in 1..Len(cases) |-> FixedDocument(cases[i])]

\* ------------------------------------------------------------------------
\* RecursiveCharacterTextSplitter (the chunker of DocumentProcessor)
\* ------------------------------------------------------------------------

\* chunk_size, chunk_overlap and separators as DocumentProcessor sets them.
chunk_size == 1000
chunk_overlap == 200
separators == << <<"\n", "\n">>, <<"\n">>, <<" ">>, << >> >>

\* str.strip(): leading and trailing whitespace goes.
Whitespace == {" ", "\n", "\t", "\r"}
RECURSIVE lstrip(_)
lstrip(s) == IF s # << >> /\ Head(s) \in Whitespace THEN lstrip(Tail(s)) ELSE s
RECURSIVE rstrip(_)
rstrip(s) ==
    IF s # << >> /\ s[Len(s)] \in Whitespace THEN rstrip(SubSeq(s, 1, Len(s) - 1)) ELSE s
strip(s) == rstrip(lstrip(s))

\* "".join(docs)
RECURSIVE Join(_)
Join(docs) == IF docs = << >> THEN << >> ELSE Head(docs) \o Join(Tail(docs))

\* _join_docs with keep_separator (the pieces are joined by ""), and
\* strip_whitespace: the stripped text, or None (here: no document).
join_docs(docs) ==
    LET text == strip(Join(docs)) IN IF text = << >> THEN << >> ELSE <<text>>

\* The pieces of text between the occurrences of sep (leftmost first, not
\* overlapping), as re.split gives them.
RECURSIVE Pieces(_, _)
Pieces(text, sep) ==
    IF ~Contains(text, sep) THEN <<text>>
    ELSE LET i == CHOOSE i \in 1..Len(text) :
                      /\ SubSeq(text, i, i + Len(sep) - 1) = sep
                      /\ \A j \in 1..(i - 1) : SubSeq(text, j, j + Len(sep) - 1) # sep
         IN  <<SubSeq(text, 1, i - 1)>>
                 \o Pieces(SubSeq(text, i + Len(sep), Len(text)), sep)

\* _split_text_with_regex(text, separator, keep_separator=True): every
\* separator stays at the front of the piece that follows it; the empty
\* separator splits into characters; empty pieces are dropped.
split_text_with_regex(text, separator) ==
    IF separator = << >>
    THEN [i \in 1..Len(text) |-> <<text[i]>>]
    ELSE LET p == Pieces(text, separator)
         IN  SelectSeq(<<p[1]>> \o [i \in 1..(Len(p) - 1) |-> separator \o p[i + 1]],
                       LAMBDA x : x # << >>)

\* The while loop of _merge_splits: pop pieces off the front of current_doc
\* while it is longer than the overlap, or too long to take the next piece.
RECURSIVE pop_docs(_, _, _, _, _)
pop_docs(current_doc, total, len, size, overlap) ==
    IF total > overlap \/ (total + len > size /\ total > 0)
    THEN pop_docs(Tail(current_doc), total - Len(Head(current_doc)), len, size, overlap)
    ELSE [current_doc |-> current_doc, total |-> total]

\* _merge_splits(splits, ""): the for loop from piece i on.
RECURSIVE merge_loop(_, _, _, _, _, _, _)
merge_loop(splits, i, docs, current_doc, total, size, overlap) ==
    IF i > Len(splits) THEN docs \o join_docs(current_doc)
    ELSE LET d == splits[i]
         IN  IF total + Len(d) > size /\ current_doc # << >>
             THEN LET p == pop_docs(current_doc, total, Len(d), size, overlap)
                  IN  merge_loop(splits, i + 1, docs \o join_docs(current_doc),
                                 Append(p.current_doc, d), p.total + Len(d), size, overlap)
             ELSE merge_loop(splits, i + 1, docs, Append(current_doc, d),
                             total + Len(d), size, overlap)

merge_splits(splits, size, overlap) == merge_loop(splits, 1, << >>, << >>, 0, size, overlap)

\* _split_text(text, separators): split on the first separator that occurs
\* in the text, merge the pieces shorter than chunk_size, and split a longer
\* piece again with the separators that follow.
RECURSIVE split_text(_, _, _, _)
RECURSIVE split_loop(_, _, _, _, _, _, _)
split_loop(splits, i, good_splits, final_chunks, new_separators, size, overlap) ==
    LET merged == IF good_splits # << >> THEN merge_splits(good_splits, size, overlap)
                  ELSE << >>
    IN  IF i > Len(splits) THEN final_chunks \o merged
        ELSE IF Len(splits[i]) < size
        THEN split_loop(splits, i + 1, Append(good_splits, splits[i]), final_chunks,
                        new_separators, size, overlap)
        ELSE split_loop(splits, i + 1, << >>,
                        final_chunks \o merged
                            \o (IF new_separators = << >> THEN <<splits[i]>>
                                ELSE split_text(splits[i], new_separators, size, overlap)),
                        new_separators, size, overlap)

split_text(text, seps, size, overlap) ==
    LET found == { i \in 1..Len(seps) : seps[i] = << >> \/ Contains(text, seps[i]) }
        k == IF found = {} THEN Len(seps)
             ELSE CHOOSE i \in found : \A j \in found : i <= j
        new_separators == IF found = {} \/ seps[k] = << >> THEN << >>
                          ELSE SubSeq(seps, k + 1, Len(seps))
    IN  split_loop(split_text_with_regex(text, seps[k]), 1, << >>, << >>,
                   new_separators, size, overlap)

\* text_splitter.split_documents: every chunk of a document becomes a
\* Document with the chunk as content and a copy of the metadata.
RECURSIVE split_documents(_)
split_documents(documents) ==
    IF documents = << >> THEN << >>
    ELSE LET doc == Head(documents)
             chunks == split_text(doc.page_content, separators, chunk_size, chunk_overlap)
         IN  [i \in 1..Len(chunks) |-> [page_content |-> chunks[i], metadata |-> doc.metadata]]
                 \o split_documents(Tail(documents))

\* Chroma.from_documents hands the chunks to the collection in batches of
\* the client's max_batch_size, each batch embedded and then written.  The
\* library's value is in the thousands; it is scaled down here so that the
\* longest indexed corpus takes more than one batch.
max_batch_size == 2

\* The corpora the index is built from: records in the pool's case_id order.
CaseOrder == <<"A1", "A2", "A3", "A4", "A5">>
Position(id) == CHOOSE m \in 1..Len(CaseOrder) : CaseOrder[m] = id
OrderedCorpora ==
    { c \in Corpora :
        \A i, j \in DOMAIN c : i < j => Position(c[i].case_id) < Position(c[j].case_id) }
IndexCorpora == { c \in OrderedCorpora : Len(c) <= MaxIndexedCases }

\* The entries a build of these chunks writes: ids is the list of fresh
\* uuids from_texts generates (ids=None in both callers).
Entries(chunks, ids) == [i \in 1..Len(chunks) |-> [id |-> ids[i], doc |-> chunks[i]]]
FreshIds(first, n) == [i \in 1..n |-> first + i - 1]

\* The collection after one complete build of the corpus into an empty directory.
BuiltStore(cases) ==
    LET chunks == split_documents(load_accident_cases(cases))
    IN  Entries(chunks, FreshIds(1, Len(chunks)))

\* Chroma(persist_directory=..., embedding_function=...): opens the directory
\* and gets or creates the collection.  It does not ask whether a build ever
\* ran and does not call the embedding service; it raises only when the
\* directory cannot be opened.
chroma_open(broken) ==
    IF broken THEN [raised |-> TRUE] ELSE [raised |-> FALSE, value |-> "Chroma"]

\* DocumentProcessor.load_vectorstore: self.vectorstore is assigned only when
\* the constructor returned; the except branch returns None.
LoadVectorstoreNoExcept(self_vectorstore, broken) ==
    LET c == chroma_open(broken)
    IN  IF c.raised
        THEN [vectorstore |-> self_vectorstore, ret |-> "None", raised |-> TRUE]
        ELSE [vectorstore |-> c.value, ret |-> c.value, raised |-> FALSE]
load_vectorstore(self_vectorstore, broken) ==
    LET c == chroma_open(broken)
    IN  IF c.raised
        THEN [vectorstore |-> self_vectorstore, ret |-> "None", raised |-> FALSE]
        ELSE [vectorstore |-> c.value, ret |-> c.value, raised |-> FALSE]

\* The embedding model is outside the repository.  What the model needs of it
\* is that the distance of a chunk to a query is a function of the two texts:
\* here, the number of distinct characters of the query the chunk lacks.
Range(f) == { f[i] : i \in DOMAIN f }
Distance(query, content) == Cardinality(Range(query) \ Range(content))

\* vectorstore.similarity_search_with_score(query, k): embeds the query
\* (raises when the embedding service or the directory fails), then gives
\* the k nearest entries, nearest first, entries at equal distance in the
\* order they were added.
SimilaritySearchAll(st, query, k, broken, ok) ==
    IF broken \/ ~ok
    THEN [raised |-> TRUE, results |-> << >>]
    ELSE LET d(i) == Distance(query, st[i].doc.page_content)
             rank(i) == Cardinality({ j \in 1..Len(st) :
                            d(j) < d(i) \/ (d(j) = d(i) /\ j < i) })
             at(r) == CHOOSE i \in 1..Len(st) : rank(i) = r - 1
         IN  [raised |-> FALSE,
              results |-> [r \in 1..Len(st) |->
                              [doc |-> st[at(r)].doc, score |-> d(at(r))]]]

similarity_search_with_score(st, query, k, broken, ok) ==
    IF broken \/ ~ok
    THEN [raised |-> TRUE, results |-> << >>]
    ELSE LET d(i) == Distance(query, st[i].doc.page_content)
             rank(i) == Cardinality({ j \in 1..Len(st) :
                            d(j) < d(i) \/ (d(j) = d(i) /\ j < i) })
             at(r) == CHOOSE i \in 1..Len(st) : rank(i) = r - 1
         IN  [raised |-> FALSE,
              results |-> [r \in 1..Min(k, Len(st)) |->
                              [doc |-> st[at(r)].doc, score |-> d(at(r))]]]

\* DocumentProcessor.search_similar_cases(query, k): what it returns, whether
\* it raised, self.vectorstore as it leaves it, and what happened on the way
\* (loaded: load_vectorstore was called; load_failed: it gave no store;
\* queried: the similarity search was called; query_failed: it raised).
search_similar_cases(self_vectorstore, st, query, k, broken, ok) ==
    LET l == IF self_vectorstore = "None"
             THEN load_vectorstore(self_vectorstore, broken)
             ELSE [vectorstore |-> self_vectorstore, ret |-> self_vectorstore,
                   raised |-> FALSE]
        loaded == self_vectorstore = "None"
    IN  IF l.raised
        THEN [vectorstore |-> l.vectorstore, result |-> << >>, raised |-> TRUE,
              loaded |-> loaded, load_failed |-> TRUE,
              queried |-> FALSE, query_failed |-> FALSE]
        ELSE IF l.vectorstore = "None"
        THEN [vectorstore |-> l.vectorstore, result |-> << >>, raised |-> FALSE,
              loaded |-> loaded, load_failed |-> TRUE,
              queried |-> FALSE, query_failed |-> FALSE]
        ELSE LET s == similarity_search_with_score(st, query, k, broken, ok)
             IN  IF s.raised
                 THEN [vectorstore |-> l.vectorstore, result |-> << >>, raised |-> FALSE,
                       loaded |-> loaded, load_failed |-> FALSE,
                       queried |-> TRUE, query_failed |-> TRUE]
                 ELSE [vectorstore |-> l.vectorstore,
                       result |-> [r \in 1..Len(s.results) |->
                                     [content |-> s.results[r].doc.page_content,
                                      metadata |-> s.results[r].doc.metadata,
                                      similarity_score |-> s.results[r].score]],
                       raised |-> FALSE,
                       loaded |-> loaded, load_failed |-> FALSE,
                       queried |-> TRUE, query_failed |-> FALSE]

\* The queries put to the vector store: 좌회전 중 충돌, 충돌 사고 and
\* 교차로 직진 좌회전.
VectorQueries ==
    { <<"jwa", "hoe", "jeon", " ", "jung", " ", "chung", "dol">>,
      <<"chung", "dol", " ", "sa", "go">>,
      <<"gyo", "cha", "ro", " ", "jik", "jin", " ", "jwa", "hoe", "jeon">> }

\* The k of a search: 1, 2, and the default of search_similar_cases.
DefaultK == 5
SearchKs == {1, 2, DefaultK}

\* ------------------------------------------------------------------------
\* TrafficAccidentAdvisor
\* ------------------------------------------------------------------------

\* The retriever of the RAG chain: vectorstore.as_retriever(search_kwargs={"k": 5}).
RetrieverK == 5

\* page_content[:300] + "..."
PreviewLength == 300

\* ------------------------------------------------------------------------
\* The completion service and the conversation memory of an advisor
\* ------------------------------------------------------------------------

\* What one call of the completion service does: it raises, it returns an
\* empty response (ChatGoogleGenerativeAI then gives an empty message), or it
\* returns text.
LLMOutcomes == {"raises", "empty", "text"}

\* The text of a non-empty response, and the text of the exception.
Reply == <<"gwa", "sil", " ", "bi", "yul">>
FailureText == <<"503", " ", "unavailable">>
llm_text(llm) == IF llm = "empty" THEN << >> ELSE Reply

\* The fixed messages of the except branches: 죄송합니다. 일시적인 오류가
\* 발생했습니다. 다시 시도해주세요. (quick_diagnosis, get_advice) and 상세
\* 분석 중 오류가 발생했습니다. 다시 시도해주세요. (detailed_analysis).
Apology == <<"joesonghamnida. ilsijeogin oryuga balsaenghaetseumnida. dasi sidohaejuseyo.">>
DetailedApology == <<"sangse bunseok jung oryuga balsaenghaetseumnida. dasi sidohaejuseyo.">>
FixedAnswer(fn) == IF fn = "detailed_analysis" THEN DetailedApology ELSE Apology

\* chat_memory.add_user_message / add_ai_message: the message goes to the
\* end of chat_memory.messages.  ConversationBufferWindowMemory(k) leaves
\* that list alone; its window is applied where the memory is read.
HumanMessage(content) == [type |-> "human", content |-> content]
AIMessage(content) == [type |-> "ai", content |-> content]
add_user_message(messages, content) == Append(messages, HumanMessage(content))
add_ai_message(messages, content) == Append(messages, AIMessage(content))

\* Python's s[-n:].
Suffix(s, n) == SubSeq(s, Len(s) - Min(n, Len(s)) + 1, Len(s))

\* ConversationBufferWindowMemory(k): 5 in TrafficAccidentAdvisor, 3 in the
\* Enhanced, Simple and Improved advisors.  load_memory_variables gives the
\* last k exchanges of the messages.
MemoryK == 5
EnhancedMemoryK == 3
buffer_as_messages(messages, k) == Suffix(messages, 2 * k)

\* The dict of the except branch of get_advice: "error" is str(e).
advice_error(error) ==
    [answer |-> Apology, source_documents |-> << >>, status |-> "error", error |-> error]

\* get_advice(question).  With a qa_chain the ConversationalRetrievalChain
\* reads the window of the memory, has the LLM rephrase the question into a
\* standalone one when that window is not empty, queries the vector store
\* with it through the retriever, asks the LLM for the answer (llm: what
\* that call does) and saves question and answer to the memory.  Without a qa_chain the LLM is asked directly, nothing is
\* retrieved and nothing is saved.  Any exception becomes the error result.
get_advice(qa_chain, messages, st, question, standalone, broken, ok, llm) ==
    IF qa_chain = "RAG"
    THEN LET chat_history == buffer_as_messages(messages, MemoryK)
             new_question == IF chat_history = << >> THEN question ELSE standalone
             s == similarity_search_with_score(st, new_question, RetrieverK, broken, ok)
         IN  IF s.raised
             THEN [result |-> advice_error(FailureText), messages |-> messages,
                   queried |-> TRUE, query_failed |-> TRUE]
             ELSE IF llm = "raises"
             THEN [result |-> advice_error(FailureText), messages |-> messages,
                   queried |-> TRUE, query_failed |-> FALSE]
             ELSE [result |->
                       [answer |-> llm_text(llm),
                        source_documents |->
                            [r \in 1..Len(s.results) |->
                                [content |-> Prefix(s.results[r].doc.page_content,
                                                    PreviewLength) \o <<"...">>,
                                 metadata |-> s.results[r].doc.metadata]],
                        status |-> "success"],
                   messages |-> add_ai_message(add_user_message(messages, question),
                                               llm_text(llm)),
                   queried |-> TRUE, query_failed |-> FALSE]
    ELSE IF llm = "raises"
         THEN [result |-> advice_error(FailureText), messages |-> messages,
               queried |-> FALSE, query_failed |-> FALSE]
         ELSE [result |-> [answer |-> llm_text(llm), source_documents |-> << >>,
                           status |-> "success"],
               messages |-> messages,
               queried |-> FALSE, query_failed |-> FALSE]


\* The marker the clarification prompt asks for: 정보 충분.
Marker == <<"jeong", "bo", " ", "chung", "bun">>

\* What the clarification call does: it raises, or it returns a text.  The
\* texts: the marker alone; 네, 정보 충분합니다; 정보가 충분 (the marker's
\* words, not the marker); a question back (신호는?); the empty response.
ClarReplies ==
    { Marker,
      <<"ne", ",", " ">> \o Marker \o <<"hap", "ni", "da">>,
      <<"jeong", "bo", "ga", " ", "chung", "bun">>,
      <<"sin", "ho", "neun", "?">>,
      << >> }
ClarOutcomes ==
    { [raises |-> TRUE, text |-> << >>] } \cup
    { [raises |-> FALSE, text |-> t] : t \in ClarReplies }

\* analyze_situation(user_input): the prompt takes chat_history[-10:] of the
\* memory; the answer needs clarification iff the marker is not in it; an
\* exception gives needs_clarification False with status "error".  The
\* memory is read only.
SituationWindow == 10
AnalyzeSituationErrorAsks(messages, user_input, clar) ==
    LET chat_history == Suffix(messages, SituationWindow)
    IN  [chat_history |-> chat_history,
         result |-> [needs_clarification |-> ~Contains(clar.text, Marker),
                     clarification_questions |-> clar.text,
                     status |-> IF clar.raises THEN "error" ELSE "success"]]
analyze_situation(messages, user_input, clar) ==
    LET chat_history == Suffix(messages, SituationWindow)
    IN  IF clar.raises
        THEN [chat_history |-> chat_history,
              result |-> [needs_clarification |-> FALSE,
                          clarification_questions |-> << >>,
                          status |-> "error", error |-> FailureText]]
        ELSE [chat_history |-> chat_history,
              result |-> [needs_clarification |-> ~Contains(clar.text, Marker),
                          clarification_questions |-> clar.text,
                          status |-> "success"]]

\* process_user_input(user_input) of the chat UI and the body of the loop of
\* run_cli_chat: analyze_situation, then get_advice iff the analysis does
\* not need clarification.  events: the calls the turn made, in order.
ProcessUserInputAlwaysAdvise(qa_chain, messages, st, user_input, clar, standalone, broken, ok, llm) ==
    LET analysis == analyze_situation(messages, user_input, clar)
        advice == get_advice(qa_chain, messages, st, user_input, standalone, broken, ok, llm)
    IN  [events |-> <<"analyze_situation", "get_advice">> \o
                    (IF advice.queried THEN <<"retrieve">> ELSE << >>),
         analysis |-> analysis, advice |-> advice,
         messages |-> advice.messages,
         response |-> advice.result.answer]
process_user_input(qa_chain, messages, st, user_input, clar, standalone, broken, ok, llm) ==
    LET analysis == analyze_situation(messages, user_input, clar)
        advice == get_advice(qa_chain, messages, st, user_input, standalone, broken, ok, llm)
    IN  IF analysis.result.needs_clarification
        THEN [events |-> <<"analyze_situation">>,
              analysis |-> analysis, advice |-> [none |-> TRUE],
              messages |-> messages,
              response |-> analysis.result.clarification_questions]
        ELSE [events |-> <<"analyze_situation", "get_advice">> \o
                         (IF advice.queried THEN <<"retrieve">> ELSE << >>),
              analysis |-> analysis, advice |-> advice,
              messages |-> advice.messages,
              response |-> advice.result.answer]

\* ------------------------------------------------------------------------
\* EnhancedTrafficAdvisor, SimpleTrafficAdvisor and ImprovedTrafficAdvisor:
\* quick_diagnosis, detailed_analysis, clear_conversation
\* ------------------------------------------------------------------------

\* str(e) of the KeyError a partial record raises.
KeyErrorText == <<"'vehicle_A_situation'">>

\* The keys quick_diagnosis reads from the cases it formats into the prompt.
FormatKeys == {"case_id", "fault_ratio", "accident_description"}

\* The dict of the except branches: a fixed answer, and str(e) under "error".
ErrorResultRaw(fn, error) ==
    [answer |-> error, type |-> "error", status |-> "error", error |-> error]
error_result(fn, error) ==
    [answer |-> FixedAnswer(fn), type |-> "error", status |-> "error", error |-> error]

\* quick_diagnosis(user_input): the Enhanced advisor first matches the
\* corpus by keyword and formats the matches; then comes the LLM call, and
\* after it the two messages go to the memory.  Everything sits in one try.
QuickDiagnosisAppendFirst(advisor_kind, data, messages, user_input, llm) ==
    LET s == IF advisor_kind = "enhanced" THEN search_similar_cases_kw(data, user_input)
             ELSE [case_data |-> data, result |-> << >>, raised |-> FALSE]
        similar_cases == [i \in 1..Len(s.result) |-> s.case_data[s.result[i]]]
        saved == add_ai_message(add_user_message(messages, user_input), llm_text(llm))
    IN  IF s.raised \/ llm = "raises"
        THEN [case_data |-> s.case_data, messages |-> saved,
              result |-> error_result("quick_diagnosis", FailureText),
              searched |-> advisor_kind = "enhanced", search_raised |-> s.raised,
              llm_called |-> ~s.raised]
        ELSE [case_data |-> s.case_data, messages |-> saved,
              result |-> [answer |-> llm_text(llm), type |-> "quick_diagnosis",
                          status |-> "success", similar_cases |-> similar_cases],
              searched |-> advisor_kind = "enhanced", search_raised |-> FALSE,
              llm_called |-> TRUE]
quick_diagnosis(advisor_kind, data, messages, user_input, llm) ==
    LET s == IF advisor_kind = "enhanced" THEN search_similar_cases_kw(data, user_input)
             ELSE [case_data |-> data, result |-> << >>, raised |-> FALSE]
        similar_cases == [i \in 1..Len(s.result) |-> s.case_data[s.result[i]]]
        format_raises == \E i \in 1..Len(similar_cases) :
                             ~(FormatKeys \subseteq DOMAIN similar_cases[i])
    IN  IF s.raised \/ format_raises
        THEN [case_data |-> s.case_data, messages |-> messages,
              result |-> error_result("quick_diagnosis", KeyErrorText),
              searched |-> advisor_kind = "enhanced", search_raised |-> s.raised,
              llm_called |-> FALSE]
        ELSE IF llm = "raises"
        THEN [case_data |-> s.case_data, messages |-> messages,
              result |-> error_result("quick_diagnosis", FailureText),
              searched |-> advisor_kind = "enhanced", search_raised |-> FALSE,
              llm_called |-> TRUE]
        ELSE [case_data |-> s.case_data,
              messages |-> add_ai_message(add_user_message(messages, user_input),
                                          llm_text(llm)),
              result |-> IF advisor_kind = "enhanced"
                         THEN [answer |-> llm_text(llm), type |-> "quick_diagnosis",
                               status |-> "success", similar_cases |-> similar_cases]
                         ELSE [answer |-> llm_text(llm), type |-> "quick_diagnosis",
                               status |-> "success"],
              searched |-> advisor_kind = "enhanced", search_raised |-> FALSE,
              llm_called |-> TRUE]

\* detailed_analysis(user_input): the prompt takes messages[-6:]; after the
\* LLM call the two messages go to the memory.
HistoryWindow == 6
DetailedAnalysisAppendFirst(messages, user_input, llm) ==
    LET chat_history == Suffix(messages, HistoryWindow)
        saved == add_ai_message(add_user_message(messages, user_input), llm_text(llm))
    IN  IF llm = "raises"
        THEN [messages |-> saved, chat_history |-> chat_history,
              result |-> error_result("detailed_analysis", FailureText),
              llm_called |-> TRUE]
        ELSE [messages |-> saved, chat_history |-> chat_history,
              result |-> [answer |-> llm_text(llm), type |-> "detailed_analysis",
                          status |-> "success"],
              llm_called |-> TRUE]
DetailedAnalysisFullHistory(messages, user_input, llm) ==
    IF llm = "raises"
    THEN [messages |-> messages, chat_history |-> messages,
          result |-> error_result("detailed_analysis", FailureText),
          llm_called |-> TRUE]
    ELSE [messages |-> add_ai_message(add_user_message(messages, user_input),
                                      llm_text(llm)),
          chat_history |-> messages,
          result |-> [answer |-> llm_text(llm), type |-> "detailed_analysis",
                      status |-> "success"],
          llm_called |-> TRUE]
detailed_analysis(messages, user_input, llm) ==
    LET chat_history == Suffix(messages, HistoryWindow)
    IN  IF llm = "raises"
        THEN [messages |-> messages, chat_history |-> chat_history,
              result |-> error_result("detailed_analysis", FailureText),
              llm_called |-> TRUE]
        ELSE [messages |-> add_ai_message(add_user_message(messages, user_input),
                                          llm_text(llm)),
              chat_history |-> chat_history,
              result |-> [answer |-> llm_text(llm), type |-> "detailed_analysis",
                          status |-> "success"],
              llm_called |-> TRUE]

\* generate_follow_up_questions(user_input, chat_history): one LLM call;
\* the memory is neither read nor written.  The except branch answers
\* 추가 질문을 생성하는 중 오류가 발생했습니다.
FollowUpApology == <<"chuga jilmuneul saengseonghaneun jung oryuga balsaenghaetseumnida.">>
generate_follow_up_questions(messages, user_input, llm) ==
    IF llm = "raises"
    THEN [messages |-> messages,
          result |-> [questions |-> FollowUpApology, type |-> "error", status |-> "error"]]
    ELSE [messages |-> messages,
          result |-> [questions |-> llm_text(llm), type |-> "follow_up_questions",
                      status |-> "success"]]

\* clear_conversation(): memory.clear() empties chat_memory.messages.
clear_conversation(messages) == << >>

\* ------------------------------------------------------------------------
\* Initial states
\* ------------------------------------------------------------------------

NoCall == [made |-> FALSE]

\* The similarity_score each record of the corpus carries (0: none).
Scores(data) ==
    [i \in 1..Len(data) |->
        IF "similarity_score" \in DOMAIN data[i] THEN data[i].similarity_score ELSE 0]
NoAdvisor == [created |-> FALSE]
Builders == {"cli", "ui"}

\* No keyword advisor, no vector session, no build.
KwIdle == case_data = << >> /\ kw_call = NoCall
RetrIdle ==
    /\ dp_vectorstore = "None"
    /\ advisor = NoAdvisor
    /\ call = NoCall
    /\ vector_failed = FALSE
BuildIdle ==
    /\ pc = [b \in Builders |-> "idle"]
    /\ pending = [b \in Builders |-> << >>]
    /\ build_ids = [b \in Builders |-> << >>]
    /\ hist = [started |-> 0, completed |-> 0, dirty |-> FALSE, first_build |-> << >>]

LoadIdle == load_call = NoCall
ChunkIdle == chunk_call = NoCall
SessIdle ==
    /\ kind = "none"
    /\ memory = << >>
    /\ sess_call = NoCall
    /\ exchanges = << >>
PaceIdle ==
    /\ now = 0
    /\ last_request_time = 0
    /\ gem_call = NoCall
    /\ requests = << >>
ImageIdle == img_call = NoCall
TextIdle == util_call = NoCall
RestIdle == LoadIdle /\ ChunkIdle /\ SessIdle /\ PaceIdle /\ ImageIdle /\ TextIdle

\* EnhancedTrafficAdvisor.__init__: case_data is the list json.load gives
\* for the corpus file.
KwInit ==
    /\ cases_file \in Corpora
    /\ case_data = cases_file
    /\ kw_call = NoCall
    /\ store = << >> /\ next_uuid = 1 /\ embed_ok = TRUE /\ db_broken = FALSE
    /\ RetrIdle
    /\ BuildIdle
    /\ RestIdle

\* A session over a persist directory that was never built, or was built
\* once from the corpus.
RetrInit ==
    /\ cases_file \in IndexCorpora
    /\ store \in {<< >>, BuiltStore(cases_file)}
    /\ next_uuid = Len(store) + 1
    /\ embed_ok = TRUE /\ db_broken = FALSE
    /\ KwIdle
    /\ RetrIdle
    /\ BuildIdle
    /\ RestIdle

\* Builders over a persist directory that was never built.
BuildInit ==
    /\ cases_file \in IndexCorpora
    /\ store = << >> /\ next_uuid = 1
    /\ embed_ok = TRUE /\ db_broken = FALSE
    /\ KwIdle
    /\ RetrIdle
    /\ BuildIdle
    /\ RestIdle

\* ------------------------------------------------------------------------
\* The keyword advisor
\* ------------------------------------------------------------------------

\* advisor._search_similar_cases(user_input)
SearchSimilarCases(user_input) ==
    LET r == search_similar_cases_kw(case_data, user_input)
    IN  /\ case_data' = r.case_data
        /\ kw_call' = [made |-> TRUE, user_input |-> user_input,
                       result |-> r.result, raised |-> r.raised,
                       prior |-> Scores(case_data)]
        /\ UNCHANGED <<cases_file, envVars, retrVars, buildVars, restVars>>

KwNext == \E q \in Queries : SearchSimilarCases(q)

SpecKw == KwInit /\ [][KwNext]_vars

\* ------------------------------------------------------------------------
\* The environment of the index
\* ------------------------------------------------------------------------

EmbeddingServiceDown ==
    /\ embed_ok
    /\ embed_ok' = FALSE
    /\ UNCHANGED <<cases_file, kwVars, store, next_uuid, db_broken, retrVars, buildVars, restVars>>

EmbeddingServiceUp ==
    /\ ~embed_ok
    /\ embed_ok' = TRUE
    /\ UNCHANGED <<cases_file, kwVars, store, next_uuid, db_broken, retrVars, buildVars, restVars>>

CorruptIndex ==
    /\ ~db_broken
    /\ db_broken' = TRUE
    /\ UNCHANGED <<cases_file, kwVars, store, next_uuid, embed_ok, retrVars, buildVars, restVars>>

\* ------------------------------------------------------------------------
\* A retrieval session
\* ------------------------------------------------------------------------

\* processor.load_vectorstore()
LoadVectorstore ==
    LET l == load_vectorstore(dp_vectorstore, db_broken)
    IN  /\ dp_vectorstore' = l.vectorstore
        /\ UNCHANGED <<cases_file, kwVars, envVars, advisor, call, vector_failed, buildVars, restVars>>

\* processor.search_similar_cases(query, k)
SearchSimilarCasesVec(query, k) ==
    LET r == search_similar_cases(dp_vectorstore, store, query, k, db_broken, embed_ok)
    IN  /\ dp_vectorstore' = r.vectorstore
        /\ call' = [made |-> TRUE, fn |-> "search_similar_cases",
                    query |-> query, k |-> k,
                    raised |-> r.raised, status |-> "returned", result |-> r.result,
                    used_vector |-> r.loaded \/ r.queried,
                    failed_before |-> vector_failed,
                    load_failed |-> r.load_failed, query_failed |-> r.query_failed,
                    no_vector |-> FALSE]
        /\ vector_failed' = (vector_failed \/ r.query_failed)
        /\ UNCHANGED <<cases_file, kwVars, envVars, advisor, buildVars, restVars>>

\* TrafficAccidentAdvisor.__init__: a new DocumentProcessor, load_vectorstore,
\* and _setup_chains, which builds the RAG chain iff a vectorstore came back.
\* index_built and embed_ok keep what the startup found (history).
AdvisorInit ==
    /\ ~advisor.created
    /\ LET l == load_vectorstore("None", db_broken)
       IN  /\ dp_vectorstore' = l.vectorstore
           /\ advisor' = [created |-> TRUE, vectorstore |-> l.ret,
                          qa_chain |-> IF l.ret # "None" THEN "RAG" ELSE "None",
                          index_built |-> store # << >>, embed_ok |-> embed_ok]
    /\ UNCHANGED <<cases_file, kwVars, envVars, call, vector_failed, buildVars, restVars>>

RetrNext ==
    \/ EmbeddingServiceDown
    \/ EmbeddingServiceUp
    \/ CorruptIndex
    \/ LoadVectorstore
    \/ \E q \in VectorQueries, k \in SearchKs : SearchSimilarCasesVec(q, k)
    \/ AdvisorInit

SpecRetrieve == RetrInit /\ [][RetrNext]_vars

\* ------------------------------------------------------------------------
\* Builds: main.py --build and the UI's build_vectordb, both through
\* DocumentProcessor.process_and_store_documents
\* ------------------------------------------------------------------------

\* build_vectordb up to the first batch: load_accident_cases, the check for
\* no documents, split_documents, and the start of Chroma.from_documents,
\* which opens the collection in the persist directory and generates the ids.
StartBuild(b) ==
    /\ pc[b] = "idle"
    /\ LET chunks == split_documents(load_accident_cases(cases_file))
           c == chroma_open(db_broken)
           ids == FreshIds(next_uuid, Len(chunks))
       IN  /\ hist.started < MaxBuilds
           /\ IF chunks = << >>
              THEN /\ pc' = [pc EXCEPT ![b] = "no_documents"]
                   /\ hist' = [hist EXCEPT !.started = @ + 1]
                   /\ UNCHANGED <<pending, build_ids, next_uuid>>
              ELSE IF c.raised
              THEN /\ pc' = [pc EXCEPT ![b] = "failed"]
                   /\ hist' = [hist EXCEPT !.started = @ + 1, !.dirty = TRUE]
                   /\ UNCHANGED <<pending, build_ids, next_uuid>>
              ELSE /\ pc' = [pc EXCEPT ![b] = "adding"]
                   /\ pending' = [pending EXCEPT ![b] = Entries(chunks, ids)]
                   /\ build_ids' = [build_ids EXCEPT ![b] = ids]
                   /\ next_uuid' = next_uuid + Len(chunks)
                   /\ hist' = [hist EXCEPT !.started = @ + 1,
                                           !.dirty = @ \/ \E o \in Builders \ {b} :
                                                              pc[o] = "adding"]
    /\ UNCHANGED <<cases_file, kwVars, store, embed_ok, db_broken, retrVars, restVars>>

\* One batch of from_documents: embed the batch, then write it to the
\* collection in the persist directory.  An embedding or storage error leaves
\* from_documents at once (process_and_store_documents logs and re-raises);
\* after the last batch comes persist().
AddBatch(b) ==
    /\ pc[b] = "adding"
    /\ LET batch == Prefix(pending[b], max_batch_size)
           rest == SubSeq(pending[b], Len(batch) + 1, Len(pending[b]))
       IN  IF ~embed_ok \/ db_broken
           THEN /\ pc' = [pc EXCEPT ![b] = "failed"]
                /\ pending' = [pending EXCEPT ![b] = << >>]
                /\ hist' = [hist EXCEPT !.dirty = TRUE]
                /\ UNCHANGED store
           ELSE /\ store' = store \o batch
                /\ pending' = [pending EXCEPT ![b] = rest]
                /\ pc' = [pc EXCEPT ![b] = IF rest = << >> THEN "done" ELSE "adding"]
                /\ hist' = IF rest # << >> THEN hist
                           ELSE [hist EXCEPT !.completed = @ + 1,
                                             !.first_build =
                                                 IF hist.completed = 0 THEN store \o batch ELSE @]
    /\ UNCHANGED <<cases_file, kwVars, next_uuid, embed_ok, db_broken, build_ids, retrVars, restVars>>

\* The build command returns; the builder can be run again.
Exit(b) ==
    /\ pc[b] \in {"done", "failed", "no_documents"}
    /\ pc' = [pc EXCEPT ![b] = "idle"]
    /\ build_ids' = [build_ids EXCEPT ![b] = << >>]
    /\ UNCHANGED <<cases_file, kwVars, envVars, pending, hist, retrVars, restVars>>

BuildNext ==
    \/ EmbeddingServiceDown
    \/ EmbeddingServiceUp
    \/ CorruptIndex
    \/ \E b \in Builders : StartBuild(b)
    \/ \E b \in Builders : AddBatch(b)
    \/ \E b \in Builders : Exit(b)

SpecBuild == BuildInit /\ [][BuildNext]_vars

\* ------------------------------------------------------------------------
\* Both retrieval paths over one corpus: the keyword matcher on the loaded
\* corpus, the vector search on the index built from it
\* ------------------------------------------------------------------------

\* The corpus is loaded by the keyword advisor, and the persist directory
\* holds what one build of the same corpus file writes.
TopKInit ==
    /\ cases_file \in OrderedCorpora
    /\ case_data = cases_file
    /\ kw_call = NoCall
    /\ store = BuiltStore(cases_file)
    /\ next_uuid = Len(store) + 1
    /\ embed_ok = TRUE /\ db_broken = FALSE
    /\ RetrIdle
    /\ BuildIdle
    /\ RestIdle

TopKNext ==
    \/ \E q \in Queries : SearchSimilarCases(q)
    \/ \E q \in VectorQueries, k \in SearchKs : SearchSimilarCasesVec(q, k)

SpecTopK == TopKInit /\ [][TopKNext]_vars

\* ------------------------------------------------------------------------
\* Loading the corpus file into documents
\* ------------------------------------------------------------------------

Processors == {"DocumentProcessor", "FixedDocumentProcessor"}

LoadInit ==
    /\ cases_file \in Corpora
    /\ store = << >> /\ next_uuid = 1
    /\ embed_ok = TRUE /\ db_broken = FALSE
    /\ KwIdle
    /\ RetrIdle
    /\ BuildIdle
    /\ RestIdle

\* processor.load_accident_cases(cases_file); neither version lets an
\* exception out.
LoadAccidentCases(processor) ==
    /\ load_call' = [made |-> TRUE, processor |-> processor,
                     documents |-> IF processor = "DocumentProcessor"
                                   THEN load_accident_cases(cases_file)
                                   ELSE fixed_load_accident_cases(cases_file),
                     raised |-> FALSE]
    /\ UNCHANGED <<cases_file, kwVars, envVars, retrVars, buildVars, chunkVars, sessVars, paceVars, imageVars, textVars>>

LoadNext == \E processor \in Processors : LoadAccidentCases(processor)

SpecLoad == LoadInit /\ [][LoadNext]_vars

\* ------------------------------------------------------------------------
\* Chunking one text
\* ------------------------------------------------------------------------

\* The texts put to the splitter: non-empty, over letters, the space and the
\* line break, without whitespace at either end (load_accident_cases strips
\* the content it builds).
ChunkAlphabet == {"a", "b", " ", "\n"}
Texts ==
    { t \in UNION { [1..n -> ChunkAlphabet] : n \in 1..MaxTextLen } :
        t[1] \notin Whitespace /\ t[Len(t)] \notin Whitespace }

\* Valid configurations, 0 < chunk_overlap < chunk_size: small ones, so that
\* the texts take several chunks, and the one DocumentProcessor uses.
ChunkConfigs == { <<2, 1>>, <<3, 1>>, <<3, 2>>, <<chunk_size, chunk_overlap>> }

ChunkInit ==
    /\ cases_file = << >>
    /\ store = << >> /\ next_uuid = 1
    /\ embed_ok = TRUE /\ db_broken = FALSE
    /\ KwIdle
    /\ RetrIdle
    /\ BuildIdle
    /\ RestIdle

\* RecursiveCharacterTextSplitter(chunk_size, chunk_overlap, separators)
\*     .split_text(text)
SplitText(text, config) ==
    /\ chunk_call' = [made |-> TRUE, text |-> text,
                      chunk_size |-> config[1], chunk_overlap |-> config[2],
                      chunks |-> split_text(text, separators, config[1], config[2])]
    /\ UNCHANGED <<cases_file, kwVars, envVars, retrVars, buildVars, loadVars, sessVars, paceVars, imageVars, textVars>>

ChunkNext == \E text \in Texts, config \in ChunkConfigs : SplitText(text, config)

SpecChunk == ChunkInit /\ [][ChunkNext]_vars

\* ------------------------------------------------------------------------
\* An advisory session: one advisor object and its conversation
\* ------------------------------------------------------------------------

AdvisorKinds == {"enhanced", "simple", "rag"}

Record(id) == CHOOSE r \in RecordPool : r.case_id = id

\* The corpus files of a session: none, the scenario's corpus, and a corpus
\* with a partial record behind a complete one.
SessionCorpora == { << >>, <<Record("A1")>>, <<Record("A1"), Record("A5")>> }

\* What the user says: 좌회전 중 충돌 and 충돌 사고.
SessionInputs ==
    { <<"jwa", "hoe", "jeon", " ", "jung", " ", "chung", "dol">>,
      <<"chung", "dol", " ", "sa", "go">> }

\* The session holds a new advisor.  EnhancedTrafficAdvisor.__init__ loads
\* the corpus file; TrafficAccidentAdvisor finds the persist directory never
\* built or built once, and its __init__ is the step AdvisorInit.
SessInit ==
    /\ kind \in AdvisorKinds
    /\ cases_file \in SessionCorpora
    /\ case_data = IF kind = "enhanced" THEN cases_file ELSE << >>
    /\ kw_call = NoCall
    /\ store \in IF kind = "rag" THEN {<< >>, BuiltStore(cases_file)} ELSE {<< >>}
    /\ next_uuid = Len(store) + 1
    /\ embed_ok \in IF kind = "rag" THEN BOOLEAN ELSE {TRUE}
    /\ db_broken = FALSE
    /\ RetrIdle
    /\ BuildIdle
    /\ LoadIdle
    /\ ChunkIdle
    /\ PaceIdle
    /\ ImageIdle
    /\ TextIdle
    /\ memory = << >>
    /\ sess_call = NoCall
    /\ exchanges = << >>

\* advisor.quick_diagnosis(user_input)
QuickDiagnosis(user_input, llm) ==
    /\ kind \in {"enhanced", "simple"}
    /\ Len(memory) < 2 * MaxExchanges
    /\ LET r == quick_diagnosis(kind, case_data, memory, user_input, llm)
       IN  /\ case_data' = r.case_data
           /\ kw_call' = IF r.searched
                         THEN [made |-> TRUE, user_input |-> user_input,
                               result |-> IF r.search_raised THEN << >>
                                          ELSE search_similar_cases_kw(case_data,
                                                                       user_input).result,
                               raised |-> r.search_raised,
                               prior |-> Scores(case_data)]
                         ELSE kw_call
           /\ memory' = r.messages
           /\ sess_call' = [made |-> TRUE, fn |-> "quick_diagnosis",
                            user_input |-> user_input, llm |-> llm,
                            before |-> memory,
                            llm_called |-> r.llm_called, raised |-> FALSE,
                            result |-> r.result]
           /\ exchanges' = IF r.result.status = "success"
                           THEN Append(exchanges, <<user_input, r.result.answer>>)
                           ELSE exchanges
    /\ UNCHANGED <<cases_file, envVars, retrVars, buildVars, loadVars, chunkVars, paceVars, imageVars, textVars,
                   kind>>

\* advisor.detailed_analysis(user_input)
DetailedAnalysis(user_input, llm) ==
    /\ kind \in {"enhanced", "simple"}
    /\ Len(memory) < 2 * MaxExchanges
    /\ LET r == detailed_analysis(memory, user_input, llm)
       IN  /\ memory' = r.messages
           /\ sess_call' = [made |-> TRUE, fn |-> "detailed_analysis",
                            user_input |-> user_input, llm |-> llm,
                            before |-> memory,
                            llm_called |-> r.llm_called, raised |-> FALSE,
                            chat_history |-> r.chat_history,
                            result |-> r.result]
           /\ exchanges' = IF r.result.status = "success"
                           THEN Append(exchanges, <<user_input, r.result.answer>>)
                           ELSE exchanges
    /\ UNCHANGED <<cases_file, kwVars, envVars, retrVars, buildVars, loadVars, chunkVars,
                   paceVars, imageVars, textVars, kind>>

\* advisor.generate_follow_up_questions(user_input)
GenerateFollowUpQuestions(user_input, llm) ==
    /\ kind \in {"enhanced", "simple"}
    /\ LET r == generate_follow_up_questions(memory, user_input, llm)
       IN  /\ memory' = r.messages
           /\ sess_call' = [made |-> TRUE, fn |-> "generate_follow_up_questions",
                            user_input |-> user_input, llm |-> llm,
                            before |-> memory,
                            llm_called |-> TRUE, raised |-> FALSE,
                            result |-> r.result]
    /\ UNCHANGED <<cases_file, kwVars, envVars, retrVars, buildVars, loadVars, chunkVars,
                   paceVars, imageVars, textVars, kind, exchanges>>

\* advisor.clear_conversation()
ClearConversation ==
    /\ kind \in {"enhanced", "simple"} \/ advisor.created
    /\ memory # << >>
    /\ memory' = clear_conversation(memory)
    /\ sess_call' = [made |-> TRUE, fn |-> "clear_conversation", llm_called |-> FALSE,
                     raised |-> FALSE]
    /\ exchanges' = << >>
    /\ UNCHANGED <<cases_file, kwVars, envVars, retrVars, buildVars, loadVars, chunkVars,
                   paceVars, imageVars, textVars, kind>>

\* advisor.get_advice(question); standalone is the question as the LLM
\* rephrases it when there is a conversation to take into account.
GetAdvice(question, standalone, llm) ==
    /\ advisor.created
    /\ Len(memory) < 2 * MaxExchanges
    /\ LET r == get_advice(advisor.qa_chain, memory, store, question, standalone,
                           db_broken, embed_ok, llm)
       IN  /\ call' = [made |-> TRUE, fn |-> "get_advice",
                       query |-> question, k |-> RetrieverK,
                       raised |-> FALSE, status |-> r.result.status,
                       result |-> r.result.source_documents,
                       used_vector |-> r.queried,
                       failed_before |-> vector_failed,
                       load_failed |-> FALSE, query_failed |-> r.query_failed,
                       no_vector |-> advisor.qa_chain = "None"]
           /\ vector_failed' = (vector_failed \/ r.query_failed)
           /\ memory' = r.messages
           /\ sess_call' = [made |-> TRUE, fn |-> "get_advice",
                            user_input |-> question, llm |-> llm,
                            before |-> memory,
                            llm_called |-> ~r.query_failed, raised |-> FALSE,
                            result |-> r.result]
           /\ exchanges' = IF r.messages # memory
                           THEN Append(exchanges, <<question, r.result.answer>>)
                           ELSE exchanges
    /\ UNCHANGED <<cases_file, kwVars, envVars, dp_vectorstore, advisor, buildVars,
                   loadVars, chunkVars, paceVars, imageVars, textVars, kind>>

SessNext ==
    \/ \E u \in SessionInputs, llm \in LLMOutcomes : QuickDiagnosis(u, llm)
    \/ \E u \in SessionInputs, llm \in LLMOutcomes : DetailedAnalysis(u, llm)
    \/ \E u \in SessionInputs, llm \in LLMOutcomes : GenerateFollowUpQuestions(u, llm)
    \/ ClearConversation
    \/ (kind = "rag" /\ AdvisorInit)
    \/ \E q \in SessionInputs, standalone \in SessionInputs, llm \in LLMOutcomes :
           GetAdvice(q, standalone, llm)

SpecSession == SessInit /\ [][SessNext]_vars

\* ------------------------------------------------------------------------
\* GeminiClient: the paced client of the completion and vision service
\* ------------------------------------------------------------------------

\* min_interval = 60 / Config.GEMINI_RATE_LIMIT, here in ticks of the clock.
min_interval == 2

\* Optional[str]: None, or the text.
None == [none |-> TRUE]
Some(text) == [none |-> FALSE, text |-> text]

\* _wait_for_rate_limit() entered at time t: sleep for the rest of the
\* interval since last_request_time, then set last_request_time to the time
\* it then is.
wait_for_rate_limit(t, last) ==
    LET time_since_last == t - last
        after == IF time_since_last < min_interval
                 THEN t + (min_interval - time_since_last)
                 ELSE t
    IN  [now |-> after, last_request_time |-> after]

\* generate_text(prompt): wait, then model.generate_content; an empty
\* response and an exception both give None.
generate_text(t, last, llm) ==
    LET w == wait_for_rate_limit(t, last)
    IN  [now |-> w.now, last_request_time |-> w.last_request_time,
         issued |-> <<w.now>>,
         ret |-> IF llm = "text" THEN Some(Reply) ELSE None]

\* analyze_accident_image(image_path): wait, then open and optimize the
\* image (which takes prep ticks, and raises for a file that is no image),
\* then vision_model.generate_content.
analyze_accident_image(t, last, image_ok, prep, llm) ==
    LET w == wait_for_rate_limit(t, last)
    IN  IF ~image_ok
        THEN [now |-> w.now, last_request_time |-> w.last_request_time,
              issued |-> << >>, ret |-> None]
        ELSE [now |-> w.now + prep, last_request_time |-> w.last_request_time,
              issued |-> <<w.now + prep>>,
              ret |-> IF llm = "text" THEN Some(Reply) ELSE None]

\* check_api_status(): model.generate_content at once.
check_api_status(t, last, llm) ==
    [now |-> t, last_request_time |-> last, issued |-> <<t>>,
     ret |-> IF llm = "raises"
             THEN [status |-> "error", api_key_valid |-> FALSE, error |-> FailureText]
             ELSE [status |-> "success", api_key_valid |-> TRUE,
                   test_response |-> IF llm = "empty" THEN <<"No response">> ELSE Reply]]

\* A client was constructed (last_request_time = 0) at a time of the clock
\* that is at least min_interval, as every time.time() is.
PaceInit ==
    /\ cases_file = << >>
    /\ store = << >> /\ next_uuid = 1
    /\ embed_ok = TRUE /\ db_broken = FALSE
    /\ KwIdle
    /\ RetrIdle
    /\ BuildIdle
    /\ LoadIdle
    /\ ChunkIdle
    /\ SessIdle
    /\ now = min_interval
    /\ last_request_time = 0
    /\ gem_call = NoCall
    /\ requests = << >>
    /\ ImageIdle
    /\ TextIdle

\* Time passes between two calls.
Tick ==
    /\ now < MaxTime
    /\ now' = now + 1
    /\ UNCHANGED <<cases_file, kwVars, envVars, retrVars, buildVars, loadVars, chunkVars,
                   sessVars, imageVars, textVars, last_request_time, gem_call, requests>>

GenerateText(llm) ==
    LET r == generate_text(now, last_request_time, llm)
    IN  /\ Len(requests) < MaxRequests
        /\ r.now <= MaxTime
        /\ now' = r.now
        /\ last_request_time' = r.last_request_time
        /\ gem_call' = [made |-> TRUE, fn |-> "generate_text", ret |-> r.ret, issued |-> r.issued]
        /\ requests' = requests \o r.issued
        /\ UNCHANGED <<cases_file, kwVars, envVars, retrVars, buildVars, loadVars,
                       chunkVars, sessVars, imageVars, textVars>>

AnalyzeAccidentImage(image_ok, prep, llm) ==
    LET r == analyze_accident_image(now, last_request_time, image_ok, prep, llm)
    IN  /\ Len(requests) < MaxRequests
        /\ r.now <= MaxTime
        /\ now' = r.now
        /\ last_request_time' = r.last_request_time
        /\ gem_call' = [made |-> TRUE, fn |-> "analyze_accident_image", ret |-> r.ret, issued |-> r.issued]
        /\ requests' = requests \o r.issued
        /\ UNCHANGED <<cases_file, kwVars, envVars, retrVars, buildVars, loadVars,
                       chunkVars, sessVars, imageVars, textVars>>

CheckApiStatus(llm) ==
    LET r == check_api_status(now, last_request_time, llm)
    IN  /\ Len(requests) < MaxRequests
        /\ r.now <= MaxTime
        /\ now' = r.now
        /\ last_request_time' = r.last_request_time
        /\ gem_call' = [made |-> TRUE, fn |-> "check_api_status", ret |-> r.ret, issued |-> r.issued]
        /\ requests' = requests \o r.issued
        /\ UNCHANGED <<cases_file, kwVars, envVars, retrVars, buildVars, loadVars,
                       chunkVars, sessVars, imageVars, textVars>>

PaceNext ==
    \/ Tick
    \/ \E llm \in LLMOutcomes : GenerateText(llm)
    \/ \E image_ok \in BOOLEAN, prep \in 0..1, llm \in LLMOutcomes :
           AnalyzeAccidentImage(image_ok, prep, llm)
    \/ \E llm \in LLMOutcomes : CheckApiStatus(llm)

SpecPace == PaceInit /\ [][PaceNext]_vars

\* ------------------------------------------------------------------------
\* The consultation with a photo: AccidentImageAnalyzer, analyze_with_context
\* and the handlers of the interactive front end
\* ------------------------------------------------------------------------

\* The text of a vision response, and the texts the except branches of the
\* analyzer return: 이미지 분석 중 오류가 발생했습니다: {e} and 파일 분석 중
\* 오류가 발생했습니다: {e}.
VisionText == <<"chu", "dol", " ", "sa", "go">>
ImageErrorText == <<"imiji bunseok jung oryuga balsaenghaetseumnida: ">> \o FailureText
FileErrorText == <<"pail bunseok jung oryuga balsaenghaetseumnida: ">> \o FailureText

\* AccidentImageAnalyzer.analyze_accident_image(image_path): Image.open and
\* _optimize_image (raise for a file that is no image), then
\* model.generate_content; an empty response gives None, an exception the
\* error text.
analyzer_analyze_accident_image(image_ok, vision) ==
    IF ~image_ok \/ vision = "raises" THEN Some(ImageErrorText)
    ELSE IF vision = "empty" THEN None
    ELSE Some(VisionText)

\* analyze_uploaded_file(uploaded_file): the upload is written to a
\* temporary file (file_ok: that works), analysed, and the file is removed.
analyze_uploaded_file(file_ok, image_ok, vision) ==
    IF ~file_ok THEN Some(FileErrorText)
    ELSE analyzer_analyze_accident_image(image_ok, vision)

\* Python's truth value of an Optional[str], and `x or default`.
Truthy(opt) == ~opt.none /\ opt.text # << >>
OrElse(opt, default) == IF Truthy(opt) THEN opt.text ELSE default

\* 이미지 분석 결과 없음, 관련 판례가 없습니다.
NoImageText == <<"imiji bunseok gyeolgwa eopseum">>

\* accident_description[:100] in reference_cases.
DescriptionPreview == 100

\* The variables quick_diagnosis hands to enhanced_diagnosis_prompt.  One
\* item per similar case; an item keeps the fields the f-string puts in.
diagnosis_prompt(similar_cases, user_input, image_analysis) ==
    [user_input |-> user_input,
     image_analysis |-> OrElse(image_analysis, NoImageText),
     similar_cases |->
         [i \in 1..Len(similar_cases) |->
             [case_id |-> similar_cases[i].case_id,
              accident_description |-> similar_cases[i].accident_description,
              fault_ratio |-> similar_cases[i].fault_ratio]],
     case_examples |->
         [i \in 1..Len(similar_cases) |->
             [case_id |-> similar_cases[i].case_id,
              fault_ratio |-> similar_cases[i].fault_ratio]],
     reference_cases |->
         [i \in 1..Len(similar_cases) |->
             [case_id |-> similar_cases[i].case_id,
              accident_description |->
                  Prefix(similar_cases[i].accident_description, DescriptionPreview)
                    \o <<"...">>,
              fault_ratio |-> similar_cases[i].fault_ratio]]]

\* detail_keywords of analyze_with_context: 상세, 더 자세히, 상세 분석,
\* 더 알고 싶, 자세한 설명.
detail_keywords ==
    << <<"sang", "se">>,
       <<"deo", " ", "ja", "se", "hi">>,
       <<"sang", "se", " ", "bun", "seok">>,
       <<"deo", " ", "al", "go", " ", "sip">>,
       <<"ja", "se", "han", " ", "seol", "myeong">> >>

\* analyze_with_context(user_input, image_analysis): detailed_analysis for
\* a request that holds a detail keyword (the image analysis is dropped),
\* quick_diagnosis with the image analysis otherwise.  prompt: the
\* variables of the prompt the LLM was called with, if a prompt was made.
analyze_with_context(advisor_kind, data, messages, user_input, image_analysis, llm) ==
    LET is_detail_request ==
            \E i \in 1..Len(detail_keywords) : Contains(user_input, detail_keywords[i])
        d == detailed_analysis(messages, user_input, llm)
        q == quick_diagnosis(advisor_kind, data, messages, user_input, llm)
        s == search_similar_cases_kw(data, user_input)
        similar_cases == IF advisor_kind = "enhanced"
                         THEN [i \in 1..Len(s.result) |-> s.case_data[s.result[i]]]
                         ELSE << >>
    IN  IF is_detail_request
        THEN [fn |-> "detailed_analysis", case_data |-> data, messages |-> d.messages,
              result |-> d.result, llm_called |-> d.llm_called,
              prompted |-> TRUE,
              prompt |-> [chat_history |-> d.chat_history, user_input |-> user_input]]
        ELSE [fn |-> "quick_diagnosis", case_data |-> q.case_data, messages |-> q.messages,
              result |-> q.result, llm_called |-> q.llm_called,
              prompted |-> q.llm_called,
              prompt |-> IF q.llm_called
                         THEN diagnosis_prompt(similar_cases, user_input, image_analysis)
                         ELSE [none |-> TRUE]]

\* process_consultation(description, uploaded_file): the image analysis is
\* "" without an upload, else what analyze_uploaded_file returns; then
\* analyze_with_context(description, image_analysis).
process_consultation(advisor_kind, data, messages, description, uploaded, file_ok, image_ok, vision, llm) ==
    LET image_analysis == IF uploaded THEN analyze_uploaded_file(file_ok, image_ok, vision)
                          ELSE Some(<< >>)
    IN  [image_analysis |-> image_analysis,
         analysis |-> analyze_with_context(advisor_kind, data, messages, description,
                                           image_analysis, llm)]

\* ------------------------------------------------------------------------
\* One user turn of a front end: process_user_input of the chat UI over a
\* TrafficAccidentAdvisor, process_consultation of the interactive UI over an
\* EnhancedTrafficAdvisor
\* ------------------------------------------------------------------------

\* A record whose accident description is longer than any preview.
LongRecord ==
    CaseRecord("A6", <<"jik", "jin">>, <<"jwa", "hoe", "jeon">>,
               [i \in 1..LongDescriptionLen |->
                   <<"gyo", "cha", "ro", " ">>[((i - 1) % 4) + 1]],
               "40:60")

TurnKinds == {"enhanced", "rag"}

\* What the user writes: 교차로 좌회전 충돌, and a request for detail,
\* 상세 분석.
TurnInputs ==
    { <<"gyo", "cha", "ro", " ", "jwa", "hoe", "jeon", " ", "chung", "dol">> }
Descriptions ==
    { <<"gyo", "cha", "ro", " ", "jwa", "hoe", "jeon", " ", "chung", "dol">>,
      <<"sang", "se", " ", "bun", "seok">> }

\* The upload of a consultation: none; one that cannot be written to the
\* temporary file; one that is no image; an image, for which the vision
\* call raises, gives an empty response, or gives text.
Upload(uploaded, file_ok, image_ok, vision) ==
    [uploaded |-> uploaded, file_ok |-> file_ok, image_ok |-> image_ok, vision |-> vision]
Uploads ==
    { Upload(FALSE, TRUE, TRUE, "text"),
      Upload(TRUE, FALSE, TRUE, "text"),
      Upload(TRUE, TRUE, FALSE, "text"),
      Upload(TRUE, TRUE, TRUE, "raises"),
      Upload(TRUE, TRUE, TRUE, "empty"),
      Upload(TRUE, TRUE, TRUE, "text") }

\* The question as the LLM rephrases it: 교차로 좌회전.
StandaloneQuestion == <<"gyo", "cha", "ro", " ", "jwa", "hoe", "jeon">>

\* The front end holds a new advisor, as in SessInit.
TurnInit ==
    /\ kind \in TurnKinds
    /\ cases_file = <<Record("A1")>>
    /\ case_data = IF kind = "enhanced" THEN cases_file ELSE << >>
    /\ kw_call = NoCall
    /\ store \in IF kind = "rag" THEN {<< >>, BuiltStore(cases_file)} ELSE {<< >>}
    /\ next_uuid = Len(store) + 1
    /\ embed_ok \in IF kind = "rag" THEN BOOLEAN ELSE {TRUE}
    /\ db_broken = FALSE
    /\ RetrIdle
    /\ BuildIdle
    /\ LoadIdle
    /\ ChunkIdle
    /\ memory = << >>
    /\ sess_call = NoCall
    /\ exchanges = << >>
    /\ PaceIdle
    /\ ImageIdle
    /\ TextIdle

\* One turn of the chat UI (and of run_cli_chat).
ProcessUserInput(user_input, clar, standalone, llm) ==
    /\ kind = "rag"
    /\ advisor.created
    /\ \E r \in { process_user_input(advisor.qa_chain, memory, store, user_input, clar,
                                       standalone, db_broken, embed_ok, llm) } :
       LET advised == r.events # <<"analyze_situation">>
       IN  /\ Len(r.messages) <= MaxMessages
           /\ call' = IF advised
                      THEN [made |-> TRUE, fn |-> "get_advice",
                            query |-> user_input, k |-> RetrieverK,
                            raised |-> FALSE, status |-> r.advice.result.status,
                            result |-> r.advice.result.source_documents,
                            used_vector |-> r.advice.queried,
                            failed_before |-> vector_failed,
                            load_failed |-> FALSE,
                            query_failed |-> r.advice.query_failed,
                            no_vector |-> advisor.qa_chain = "None"]
                      ELSE call
           /\ vector_failed' = (vector_failed \/ (advised /\ r.advice.query_failed))
           /\ memory' = r.messages
           /\ sess_call' = [made |-> TRUE, fn |-> "process_user_input",
                            user_input |-> user_input, clar |-> clar,
                            before |-> memory,
                            events |-> r.events,
                            analysis |-> r.analysis.result,
                            chat_history |-> r.analysis.chat_history,
                            response |-> r.response]
           /\ exchanges' = IF r.messages # memory
                           THEN Append(exchanges, <<user_input, r.response>>)
                           ELSE exchanges
    /\ UNCHANGED <<cases_file, kwVars, envVars, dp_vectorstore, advisor, buildVars,
                   loadVars, chunkVars, paceVars, imageVars, textVars, kind>>

\* One consultation of the interactive UI, with or without a photo, in a
\* conversation of at most limit messages.
ProcessConsultation(limit, description, up, llm) ==
    /\ kind = "enhanced"
    /\ LET uploaded == up.uploaded
           file_ok == up.file_ok
           image_ok == up.image_ok
           vision == up.vision
       IN  \E r \in { process_consultation(kind, case_data, memory, description, uploaded,
                                           file_ok, image_ok, vision, llm) } :
           \E a \in { r.analysis } :
           /\ Len(a.messages) <= limit
           /\ case_data' = a.case_data
           /\ kw_call' = kw_call
           /\ memory' = a.messages
           /\ sess_call' = [made |-> TRUE, fn |-> a.fn,
                            user_input |-> description, llm |-> llm,
                            before |-> memory,
                            llm_called |-> a.llm_called, raised |-> FALSE,
                            result |-> a.result,
                            prompted |-> a.prompted, prompt |-> a.prompt]
           /\ img_call' = [made |-> TRUE, uploaded |-> uploaded,
                           failed |-> uploaded /\ (~file_ok \/ ~image_ok \/ vision = "raises"),
                           image_analysis |-> r.image_analysis]
           /\ exchanges' = IF a.messages # memory
                           THEN Append(exchanges, <<description, a.result.answer>>)
                           ELSE exchanges
    /\ UNCHANGED <<cases_file, envVars, retrVars, buildVars, loadVars, chunkVars, paceVars,
                   textVars, kind>>

TurnNext ==
    \/ (kind = "rag" /\ AdvisorInit)
    \/ \E u \in TurnInputs, clar \in ClarOutcomes, llm \in LLMOutcomes :
           ProcessUserInput(u, clar, StandaloneQuestion, llm)
    \/ \E d \in Descriptions, up \in Uploads, llm \in LLMOutcomes :
           ProcessConsultation(MaxEnhancedMessages, d, up, llm)

SpecTurn == TurnInit /\ [][TurnNext]_vars

\* A consultation over a corpus with a long accident description.
EvidenceInit ==
    /\ kind = "enhanced"
    /\ cases_file \in { <<Record("A1")>>, <<LongRecord>>, <<Record("A1"), LongRecord>> }
    /\ case_data = cases_file
    /\ kw_call = NoCall
    /\ store = << >> /\ next_uuid = 1
    /\ embed_ok = TRUE /\ db_broken = FALSE
    /\ RetrIdle
    /\ BuildIdle
    /\ LoadIdle
    /\ ChunkIdle
    /\ memory = << >>
    /\ sess_call = NoCall
    /\ exchanges = << >>
    /\ PaceIdle
    /\ ImageIdle
    /\ TextIdle

EvidenceNext ==
    \E d \in Descriptions, up \in Uploads, llm \in LLMOutcomes :
        ProcessConsultation(MaxEvidenceMessages, d, up, llm)

SpecEvidence == EvidenceInit /\ [][EvidenceNext]_vars

\* ------------------------------------------------------------------------
\* utils.py: clean_text and extract_fault_ratio (a text is the sequence of
\* its characters; "@" stands for the bullet character of the source site)
\* ------------------------------------------------------------------------

\* str.replace(old, new): the occurrences of old from the left, not
\* overlapping.
RECURSIVE replace(_, _, _)
replace(s, old, new) ==
    IF Len(s) < Len(old) THEN s
    ELSE IF SubSeq(s, 1, Len(old)) = old
    THEN new \o replace(SubSeq(s, Len(old) + 1, Len(s)), old, new)
    ELSE <<Head(s)>> \o replace(Tail(s), old, new)

\* re.sub(r'\s+', ' ', s): each maximal run of whitespace becomes one space.
RECURSIVE collapse(_)
collapse(s) ==
    IF s = << >> THEN << >>
    ELSE IF Head(s) \in Whitespace THEN <<" ">> \o collapse(lstrip(s))
    ELSE <<Head(s)>> \o collapse(Tail(s))

\* clean_text(text) of utils.py and AccidentCrawler._clean_text: "" for a
\* missing or empty text; else strip, line breaks to spaces, the bullet
\* marker removed, whitespace collapsed, strip.
clean_text(text) ==
    IF text.none \/ text.text = << >> THEN << >>
    ELSE LET stripped == strip(text.text)
             unbroken == replace(replace(stripped, <<"\r", "\n">>, <<" ">>),
                                 <<"\n">>, <<" ">>)
             unmarked == replace(unbroken, <<"@", " ">>, << >>)
         IN  strip(collapse(unmarked))

\* re.findall(r'\d+', s): the maximal runs of digits, from the left.
Digits == <<"0", "1", "2", "3", "4", "5", "6", "7", "8", "9">>
IsDigit(c) == \E d \in 1..Len(Digits) : Digits[d] = c
RECURSIVE findall_digits(_, _, _)
findall_digits(s, run, matches) ==
    IF s = << >> THEN (IF run = << >> THEN matches ELSE Append(matches, run))
    ELSE IF IsDigit(Head(s)) THEN findall_digits(Tail(s), Append(run, Head(s)), matches)
    ELSE findall_digits(Tail(s), << >>,
                        IF run = << >> THEN matches ELSE Append(matches, run))

\* int(s) of a run of digits.
RECURSIVE int(_)
int(s) ==
    IF s = << >> THEN 0
    ELSE 10 * int(SubSeq(s, 1, Len(s) - 1))
           + (CHOOSE d \in 1..Len(Digits) : Digits[d] = s[Len(s)]) - 1

\* An int, as opposed to None.
Int_(n) == [none |-> FALSE, value |-> n]

\* extract_fault_ratio(fault_string): the first two runs of digits as ints;
\* (None, None) with fewer than two, and from the bare except, which a
\* fault_string that is no str reaches (re.findall raises TypeError).
ExtractFaultRatioValidated(fault_string) ==
    IF ~fault_string.is_str THEN <<None, None>>
    ELSE LET matches == findall_digits(fault_string.text, << >>, << >>)
         IN  IF Len(matches) >= 2 /\ int(matches[1]) + int(matches[2]) = 100
             THEN <<Int_(int(matches[1])), Int_(int(matches[2]))>>
             ELSE <<None, None>>
extract_fault_ratio(fault_string) ==
    IF ~fault_string.is_str THEN <<None, None>>
    ELSE LET matches == findall_digits(fault_string.text, << >>, << >>)
         IN  IF Len(matches) >= 2
             THEN <<Int_(int(matches[1])), Int_(int(matches[2]))>>
             ELSE <<None, None>>

\* The texts put to clean_text: every text of up to MaxCleanLen characters
\* over a letter, the bullet and the whitespace characters, the text of the
\* test of the repository ("@ a\n\nb\r\nc."), and the missing text.
CleanAlphabet == {"a", "@", " ", "\t", "\n", "\r"}
TestText == <<"@", " ", "a", "\n", "\n", "b", "\r", "\n", "c", ".">>
CleanInputs ==
    { None } \cup
    { Some(t) : t \in UNION { [1..n -> CleanAlphabet] : n \in 0..MaxCleanLen } } \cup
    { Some(TestText) }

\* The arguments put to extract_fault_ratio: every string of up to
\* MaxFaultLen characters over three digits, the space, the colon and a
\* letter; "70 : 30" of the test; and an argument that is no str.
FaultAlphabet == {"7", "0", "3", " ", ":", "a"}
Str(t) == [is_str |-> TRUE, text |-> t]
TestRatio == <<"7", "0", " ", ":", " ", "3", "0">>
FaultInputs ==
    { [is_str |-> FALSE, text |-> << >>] } \cup
    { Str(t) : t \in UNION { [1..n -> FaultAlphabet] : n \in 0..MaxFaultLen } } \cup
    { Str(TestRatio) }

\* A call of one of the two functions is about to be made.
TextInit ==
    /\ cases_file = << >>
    /\ store = << >> /\ next_uuid = 1
    /\ embed_ok = TRUE /\ db_broken = FALSE
    /\ KwIdle
    /\ RetrIdle
    /\ BuildIdle
    /\ LoadIdle /\ ChunkIdle /\ SessIdle /\ PaceIdle /\ ImageIdle
    /\ util_call \in
           { [made |-> FALSE, fn |-> "clean_text", input |-> text] :
                 text \in CleanInputs } \cup
           { [made |-> FALSE, fn |-> "extract_fault_ratio", input |-> fault_string] :
                 fault_string \in FaultInputs }

\* clean_text(text), and clean_text of what it gave.
CleanText ==
    /\ ~util_call.made /\ util_call.fn = "clean_text"
    /\ LET text == util_call.input
           cleaned == clean_text(text)
       IN  util_call' = [made |-> TRUE, fn |-> "clean_text", input |-> text,
                         result |-> cleaned, again |-> clean_text(Some(cleaned))]
    /\ UNCHANGED <<cases_file, kwVars, envVars, retrVars, buildVars, loadVars, chunkVars,
                   sessVars, paceVars, imageVars>>

\* extract_fault_ratio(fault_string)
ExtractFaultRatio ==
    /\ ~util_call.made /\ util_call.fn = "extract_fault_ratio"
    /\ LET fault_string == util_call.input
       IN  util_call' = [made |-> TRUE, fn |-> "extract_fault_ratio",
                         input |-> fault_string,
                         result |-> extract_fault_ratio(fault_string)]
    /\ UNCHANGED <<cases_file, kwVars, envVars, retrVars, buildVars, loadVars, chunkVars,
                   sessVars, paceVars, imageVars>>

TextNext ==
    \/ CleanText
    \/ ExtractFaultRatio

SpecText == TextInit /\ [][TextNext]_vars

\* ------------------------------------------------------------------------
\* Properties of the keyword matcher
\* ------------------------------------------------------------------------

\* The text of a key of a case record (nothing when the record lacks it).
FieldText(case, key) == IF key \in DOMAIN case THEN case[key] ELSE << >>

\* The vocabulary terms that occur in the text.
TermsIn(text) == { k \in 1..Len(keywords) : Contains(text, keywords[k]) }

\* The number of vocabulary terms that occur both in the query and in the
\* case's party A situation, party B situation or description.
SharedTerms(query, case) ==
    Cardinality({ k \in TermsIn(query) :
        \E key \in CaseTextKeys : Contains(FieldText(case, key), keywords[k]) })

\* The cases of the corpus that share a term with the query, and the place
\* of one of them in the order "higher score first, corpus order among equals".
PositiveCases(query, data) == { i \in 1..Len(data) : SharedTerms(query, data[i]) > 0 }
RankOf(query, data, i) ==
    Cardinality({ j \in PositiveCases(query, data) :
        \/ SharedTerms(query, data[j]) > SharedTerms(query, data[i])
        \/ (SharedTerms(query, data[j]) = SharedTerms(query, data[i]) /\ j < i) })

KwReturned == kw_call.made /\ ~kw_call.raised

\* C8: for every corpus, a query that contains none of the vocabulary terms
\* yields an empty keyword-match result (the call returns, and returns no case).
C8_PrecisionOverRecall ==
    (kw_call.made /\ TermsIn(kw_call.user_input) = {})
        => (~kw_call.raised /\ kw_call.result = << >>)

\* C8 witness: 직 진 (no term) was asked of a corpus that holds a 직진 case.
C8_Witness ==
    /\ kw_call.made
    /\ kw_call.user_input = <<"jik", " ", "jin">>
    /\ \E i \in 1..Len(case_data) : case_data[i].case_id = "A1"
    /\ kw_call.result = << >>

\* C9: every returned case carries as its score the number of vocabulary
\* terms shared by the query and the case's text, that score is positive, and
\* on the one-record corpus A1 the query 좌회전 중 충돌 returns exactly A1
\* with a score of at least 1.
C9_KeywordScoring ==
    KwReturned =>
        /\ \A r \in 1..Len(kw_call.result) :
             LET case == case_data[kw_call.result[r]]
             IN  /\ "similarity_score" \in DOMAIN case
                 /\ case.similarity_score = SharedTerms(kw_call.user_input, case)
                 /\ case.similarity_score > 0
        /\ ( /\ Len(case_data) = 1
             /\ case_data[1].case_id = "A1"
             /\ kw_call.user_input = <<"jwa", "hoe", "jeon", " ", "jung", " ", "chung", "dol">> )
           => /\ kw_call.result = <<1>>
              /\ case_data[1].similarity_score >= 1

\* C9 witness: the scenario has run, and A1 was returned.
C9_Witness ==
    /\ KwReturned
    /\ Len(case_data) = 1
    /\ case_data[1].case_id = "A1"
    /\ kw_call.user_input = <<"jwa", "hoe", "jeon", " ", "jung", " ", "chung", "dol">>
    /\ Len(kw_call.result) = 1

\* C10: the result is the first three cases of the list of all positive-score
\* cases in descending score, equal scores in corpus order.
C10_KeywordRanking ==
    KwReturned =>
        /\ Len(kw_call.result) =
             Min(3, Cardinality(PositiveCases(kw_call.user_input, case_data)))
        /\ \A r \in 1..Len(kw_call.result) :
             /\ kw_call.result[r] \in PositiveCases(kw_call.user_input, case_data)
             /\ RankOf(kw_call.user_input, case_data, kw_call.result[r]) = r - 1

\* C10 witness: four cases matched, three were returned, two of them with
\* equal scores, and one case was returned ahead of an earlier case of the corpus.
C10_Witness ==
    /\ KwReturned
    /\ Cardinality(PositiveCases(kw_call.user_input, case_data)) = 4
    /\ Len(kw_call.result) = 3
    /\ \E r \in 1..2 :
         case_data[kw_call.result[r]].similarity_score
           = case_data[kw_call.result[r + 1]].similarity_score
    /\ \E r \in 1..2 : kw_call.result[r] > kw_call.result[r + 1]

\* ------------------------------------------------------------------------
\* Properties of retrieval over the vector index
\* ------------------------------------------------------------------------

\* The case ids the keyword matcher gives for the query on the corpus file
\* (none when the matcher itself raises on a partial record).
KeywordMatchIds(cases, query) ==
    LET r == search_similar_cases_kw(cases, query)
    IN  IF r.raised THEN << >>
        ELSE [i \in 1..Len(r.result) |-> r.case_data[r.result[i]].case_id]

\* The case ids of the cases a retrieval call returned.
ResultIds(c) == [i \in 1..Len(c.result) |-> c.result[i].metadata.case_id]

\* The call found no usable vector path: no store could be loaded, the
\* advisor has no RAG chain, or the vector query raised.
VectorPathFailed(c) == c.load_failed \/ c.query_failed \/ c.no_vector

\* C1: whenever the vector path is missing, corrupted or raises during a
\* query, the corpus is non-empty and the query shares a vocabulary term with
\* some case, the same retrieval call returns the keyword-matched cases
\* (it does not raise and does not come back empty).
C1_DegradationOrdering ==
    ( /\ call.made
      /\ VectorPathFailed(call)
      /\ cases_file # << >>
      /\ KeywordMatchIds(cases_file, call.query) # << >> )
    => ( /\ ~call.raised
         /\ ResultIds(call) = KeywordMatchIds(cases_file, call.query) )

\* C2: once a vector query of the session has failed, no later retrieval
\* goes to the vector path again (neither a query nor a re-load of the store).
C2_StickyDegradation ==
    call.made => ~(call.failed_before /\ call.used_vector)

\* C3: when the collection was never built, or the embedding service is
\* unreachable at startup, load_vectorstore gives no index object and the
\* advisor starts without the vector chain.
C3_StartupKeywordOnly ==
    ( /\ advisor.created
      /\ (~advisor.index_built \/ ~advisor.embed_ok) )
    => ( /\ advisor.vectorstore = "None"
         /\ advisor.qa_chain = "None" )

\* C4: search_similar_cases never raises to its caller, and on an empty
\* index, an unloadable index or an embedding/search failure it returns [].
C4_SearchNeverRaises ==
    (call.made /\ call.fn = "search_similar_cases")
    => ( /\ ~call.raised
         /\ (store = << >> \/ call.load_failed \/ call.query_failed)
              => call.result = << >> )

\* C4 witness: the search ran against a built index whose query raised
\* (embedding service down), and returned [].
C4_Witness ==
    /\ call.made
    /\ call.fn = "search_similar_cases"
    /\ store # << >>
    /\ call.query_failed
    /\ ~call.raised
    /\ call.result = << >>

\* ------------------------------------------------------------------------
\* Properties of the index build
\* ------------------------------------------------------------------------

\* The documents of the collection, in the order they were added.
StoreDocs(st) == [i \in 1..Len(st) |-> st[i].doc]

\* What a query returns from a collection.
QueryResult(st, query, k) ==
    similarity_search_with_score(st, query, k, FALSE, TRUE).results

\* C5: a build that fails part-way has committed none of its entries to the
\* persisted collection (which is then what it was before the build).
C5_BuildAtomicity ==
    \A b \in Builders :
        pc[b] = "failed" =>
            \A i \in 1..Len(store) : store[i].id \notin Range(build_ids[b])

\* C6: after a second complete build from the unchanged corpus (no build
\* failed, no two builds overlapped) the collection holds the entries it held
\* after the first build, and every query returns what it returned then.
C6_IdempotentRebuild ==
    (hist.completed >= 2 /\ ~hist.dirty)
    => ( /\ StoreDocs(store) = StoreDocs(hist.first_build)
         /\ \A q \in VectorQueries, k \in SearchKs :
                QueryResult(store, q, k) = QueryResult(hist.first_build, q, k) )

\* C7: at no time are two builds writing the persisted collection.
C7_ExclusiveBuild ==
    Cardinality({ b \in Builders : pc[b] = "adding" }) <= 1

\* ------------------------------------------------------------------------
\* Properties of both retrieval paths
\* ------------------------------------------------------------------------

\* C11: a retrieval returns at most k items: the vector search at most the
\* k it was called with, the keyword matcher (which takes no k) at most its
\* fixed k of three.
C11_TopKBound ==
    /\ (call.made /\ call.fn = "search_similar_cases")
          => Len(call.result) <= call.k
    /\ KwReturned => Len(kw_call.result) <= TopCases

\* C11 witness: an index of four entries was searched with k = 2 and gave two
\* items, and the keyword matcher found four matching cases and gave three.
C11_Witness ==
    /\ call.made /\ call.fn = "search_similar_cases"
    /\ Len(store) = 4 /\ call.k = 2 /\ Len(call.result) = 2
    /\ KwReturned
    /\ Cardinality(PositiveCases(kw_call.user_input, case_data)) = 4
    /\ Len(kw_call.result) = 3

\* ------------------------------------------------------------------------
\* Properties of the keyword matcher over partial and loaded records
\* ------------------------------------------------------------------------

\* The records of the corpus that lack a required field.
Malformed(data) == { i \in 1..Len(data) : ~(DocumentKeys \subseteq DOMAIN data[i]) }

\* C12: when the corpus contains a malformed record, a keyword match does not
\* raise and returns the empty result.
C12_MatcherNeverFails ==
    (kw_call.made /\ Malformed(case_data) # {})
        => (~kw_call.raised /\ kw_call.result = << >>)

\* C13: after any sequence of keyword matches every record of the in-memory
\* corpus has exactly the fields and values it was loaded with.
C13_RecordsReadOnly ==
    case_data = cases_file

\* ------------------------------------------------------------------------
\* Properties of record normalization
\* ------------------------------------------------------------------------

\* The well-formed records of the corpus, in corpus order.
WellFormed(cases) ==
    SelectSeq(cases, LAMBDA c : DocumentKeys \subseteq DOMAIN c)

\* C14: loading a corpus does not raise, skips each record that lacks a
\* required field and yields one document for every well-formed record, in
\* corpus order.
C14_NormalizerSkipsMalformed ==
    load_call.made =>
        /\ ~load_call.raised
        /\ Len(load_call.documents) = Len(WellFormed(cases_file))
        /\ \A i \in 1..Len(load_call.documents) :
             load_call.documents[i].metadata.case_id = WellFormed(cases_file)[i].case_id

\* ------------------------------------------------------------------------
\* Properties of the chunker
\* ------------------------------------------------------------------------

\* The rest of the text is what the chunks from the i-th on give when each
\* of them first loses its overlap with the chunk before it: some prefix of
\* at most chunk_overlap characters.
RECURSIVE RebuildsFrom(_, _, _, _)
RebuildsFrom(chunks, i, rest, overlap) ==
    IF i > Len(chunks) THEN rest = << >>
    ELSE \E o \in 0..Min(overlap, Len(chunks[i])) :
            LET tail == SubSeq(chunks[i], o + 1, Len(chunks[i]))
            IN  /\ Len(tail) <= Len(rest)
                /\ SubSeq(rest, 1, Len(tail)) = tail
                /\ RebuildsFrom(chunks, i + 1, SubSeq(rest, Len(tail) + 1, Len(rest)), overlap)

\* C15: for every text and every valid configuration the chunk sequence is
\* non-empty, every chunk is at most chunk_size long, and the chunks, with
\* the overlap removed from each but the first, concatenate to the text.
C15_ChunkReconstruction ==
    chunk_call.made =>
        /\ chunk_call.chunks # << >>
        /\ \A i \in 1..Len(chunk_call.chunks) :
             Len(chunk_call.chunks[i]) <= chunk_call.chunk_size
        /\ Len(chunk_call.chunks[1]) <= Len(chunk_call.text)
        /\ SubSeq(chunk_call.text, 1, Len(chunk_call.chunks[1])) = chunk_call.chunks[1]
        /\ RebuildsFrom(chunk_call.chunks, 2,
                        SubSeq(chunk_call.text, Len(chunk_call.chunks[1]) + 1,
                               Len(chunk_call.text)),
                        chunk_call.chunk_overlap)

\* ------------------------------------------------------------------------
\* Properties of an advisory session
\* ------------------------------------------------------------------------

\* The messages of a sequence of (user, assistant) pairs, in order.
RECURSIVE TurnsOf(_)
TurnsOf(pairs) ==
    IF pairs = << >> THEN << >>
    ELSE <<HumanMessage(Head(pairs)[1]), AIMessage(Head(pairs)[2])>> \o TurnsOf(Tail(pairs))

\* C16: in a session of quick_diagnosis and detailed_analysis calls the
\* history is the user turn and the assistant turn of every successful call,
\* in call order: each such call has appended its two turns at the end and
\* left the earlier ones alone, and a failed call has appended nothing.
C16_HistoryGrowsInOrder ==
    kind \in {"enhanced", "simple"} => memory = TurnsOf(exchanges)

\* C16 witness: three successful calls of both kinds, with different inputs,
\* and a failed one after them.
C16_Witness ==
    /\ kind = "enhanced"
    /\ Len(exchanges) = 3
    /\ exchanges[1][1] # exchanges[2][1]
    /\ memory[5].content = exchanges[3][1]
    /\ sess_call.made /\ sess_call.fn = "detailed_analysis"
    /\ sess_call.result.status = "error"

\* The window of the advisor's memory, in exchanges.
WindowOf(advisor_kind) == IF advisor_kind = "rag" THEN MemoryK ELSE EnhancedMemoryK

\* C17: the stored history never holds more than the window of most recent
\* exchanges (two messages each), and it is empty right after
\* clear_conversation.
C17_BoundedHistory ==
    /\ Len(memory) <= 2 * WindowOf(kind)
    /\ (sess_call.made /\ sess_call.fn = "clear_conversation") => memory = << >>

\* The calls that give advice.
AdvisoryCalls == {"quick_diagnosis", "detailed_analysis", "get_advice"}

\* C18: when the completion service raises, the advisory call does not raise
\* and returns status "error" with the fixed message of the method as its
\* answer, not the text of the failure.
C18_ServiceErrorFixedAnswer ==
    (sess_call.made /\ sess_call.fn \in AdvisoryCalls
       /\ sess_call.llm_called /\ sess_call.llm = "raises")
    => ( /\ ~sess_call.raised
         /\ sess_call.result.status = "error"
         /\ sess_call.result.answer = FixedAnswer(sess_call.fn)
         /\ sess_call.result.answer # FailureText )

\* C18 witness: the service raised in a detailed_analysis that came after a
\* successful exchange, and the call gave the error result.
C18_Witness ==
    /\ sess_call.made /\ sess_call.fn = "detailed_analysis"
    /\ sess_call.llm = "raises"
    /\ memory # << >>
    /\ sess_call.result.status = "error"
    /\ sess_call.result.error = FailureText

\* C19: when the completion service returns an empty response, the advisory
\* call returns the fixed error message, never a success with an empty answer.
C19_EmptyResponseChecked ==
    (sess_call.made /\ sess_call.fn \in AdvisoryCalls
       /\ sess_call.llm_called /\ sess_call.llm = "empty")
    => ( /\ sess_call.result.status = "error"
         /\ sess_call.result.answer = FixedAnswer(sess_call.fn) )

\* ------------------------------------------------------------------------
\* Properties of the paced client
\* ------------------------------------------------------------------------

C28_FailedCallKeepsHistory ==
    /\ (sess_call.made /\ sess_call.fn \in {"quick_diagnosis", "detailed_analysis"}
          /\ sess_call.llm_called /\ sess_call.llm = "raises")
       => memory = sess_call.before
    /\ (sess_call.made /\ sess_call.fn = "generate_follow_up_questions")
       => memory = sess_call.before

\* The completion call of a quick_diagnosis raised in a conversation under
\* way.
C28_Witness ==
    /\ sess_call.made /\ sess_call.fn = "quick_diagnosis"
    /\ sess_call.llm_called /\ sess_call.llm = "raises"
    /\ Len(sess_call.before) >= 4
    /\ memory = sess_call.before
C28_WitnessFollowUp ==
    /\ sess_call.made /\ sess_call.fn = "generate_follow_up_questions"
    /\ sess_call.llm = "text"
    /\ Len(sess_call.before) >= 2

\* ------------------------------------------------------------------------
\* Properties of repeated keyword queries
\* ------------------------------------------------------------------------

\* C29: after any sequence of keyword queries, every case returned for the
\* current query carries the score of the current query (computed here from
\* the record as the corpus file has it), not one an earlier query left.
C29_NoStaleScores ==
    KwReturned =>
        \A r \in 1..Len(kw_call.result) :
            LET i == kw_call.result[r]
            IN  /\ i \in 1..Len(cases_file)
                /\ case_data[i].similarity_score
                       = SharedTerms(kw_call.user_input, cases_file[i])

\* A returned case carried another score, from an earlier query, before the
\* call; and a case that was not returned still carries an old score.
C29_Witness ==
    /\ KwReturned
    /\ \E r \in 1..Len(kw_call.result) :
           LET i == kw_call.result[r]
           IN  /\ kw_call.prior[i] > 0
               /\ kw_call.prior[i] # case_data[i].similarity_score
    /\ \E i \in 1..Len(case_data) :
           /\ \A r \in 1..Len(kw_call.result) : kw_call.result[r] # i
           /\ "similarity_score" \in DOMAIN case_data[i]

\* ------------------------------------------------------------------------
\* Properties of one user turn
\* ------------------------------------------------------------------------

\* How often a call occurs among the calls of a turn.
Count(events, e) == Cardinality({ i \in 1..Len(events) : events[i] = e })

TurnMade == sess_call.made /\ sess_call.fn = "process_user_input"

\* C21: in one user turn analyze_situation is called first and exactly
\* once; get_advice is called at most once, after it, and only if the
\* analysis reported that no clarification is needed; the vector store is
\* queried at most once, inside get_advice.
C21_CallDiscipline ==
    TurnMade =>
        LET events == sess_call.events
        IN  /\ events # << >> /\ events[1] = "analyze_situation"
            /\ Count(events, "analyze_situation") = 1
            /\ Count(events, "get_advice") <= 1
            /\ Count(events, "retrieve") <= 1
            /\ \A i \in 1..Len(events) :
                   /\ events[i] = "get_advice" =>
                          i = 2 /\ ~sess_call.analysis.needs_clarification
                   /\ events[i] = "retrieve" => i = 3 /\ events[2] = "get_advice"

\* A turn that went through clarification, advice and retrieval in a
\* conversation already under way, and a turn that stopped at clarification.
C21_Witness ==
    /\ TurnMade
    /\ sess_call.events = <<"analyze_situation", "get_advice", "retrieve">>
    /\ sess_call.before # << >>
    /\ Len(memory) = Len(sess_call.before) + 2

\* The marker occurs in a text.
HasMarker(text) ==
    \E i \in 1..Len(text) :
        /\ i + 4 <= Len(text)
        /\ text[i] = "jeong" /\ text[i + 1] = "bo" /\ text[i + 2] = " "
        /\ text[i + 3] = "chung" /\ text[i + 4] = "bun"

\* C26: analyze_situation reports needs_clarification = FALSE exactly when
\* the clarification response holds the marker; when the clarification call
\* fails it reports FALSE with status "error", and the turn goes on to
\* get_advice.
C26_ClarificationDecision ==
    TurnMade =>
        IF sess_call.clar.raises
        THEN /\ sess_call.analysis.needs_clarification = FALSE
             /\ sess_call.analysis.status = "error"
             /\ Count(sess_call.events, "get_advice") = 1
        ELSE /\ sess_call.analysis.status = "success"
             /\ sess_call.analysis.needs_clarification = ~HasMarker(sess_call.clar.text)

\* A failed clarification call after which advice was given, in a
\* conversation under way.
C26_Witness ==
    /\ TurnMade
    /\ sess_call.clar.raises
    /\ sess_call.before # << >>
    /\ Count(sess_call.events, "get_advice") = 1
    /\ memory # sess_call.before

\* h is the last n messages of b (all of b, if b has fewer), in b's order.
IsWindow(h, b, n) ==
    /\ Len(h) = Min(n, Len(b))
    /\ \A i \in 1..Len(h) : h[i] = b[Len(b) - Len(h) + i]

\* C27: the history detailed_analysis puts into its prompt is the last 6
\* messages of the conversation, the history analyze_situation puts into
\* its prompt the last 10, in their order.
C27_HistoryWindow ==
    /\ TurnMade =>
           /\ Len(sess_call.chat_history) <= 10
           /\ IsWindow(sess_call.chat_history, sess_call.before, 10)
    /\ (sess_call.made /\ sess_call.fn = "detailed_analysis") =>
           /\ Len(sess_call.prompt.chat_history) <= 6
           /\ IsWindow(sess_call.prompt.chat_history, sess_call.before, 6)

\* analyze_situation in a conversation of 12 messages; detailed_analysis in
\* a conversation of 8.
C27_Witness ==
    /\ TurnMade
    /\ Len(sess_call.before) = 12
    /\ Len(sess_call.chat_history) = 10
    /\ sess_call.chat_history[1] = sess_call.before[3]
    /\ sess_call.before[1] # sess_call.before[2]
C27_WitnessDetailed ==
    /\ sess_call.made /\ sess_call.fn = "detailed_analysis"
    /\ Len(sess_call.before) = 8
    /\ Len(sess_call.prompt.chat_history) = 6

\* C23: when the analysis of an uploaded image fails, the analyzer returns
\* no text, and the prompt of the diagnosis carries no image analysis.
C23_ImageFailureEmpty ==
    (img_call.made /\ img_call.failed) =>
        /\ ~Truthy(img_call.image_analysis)
        /\ (sess_call.fn = "quick_diagnosis" /\ sess_call.prompted) =>
               sess_call.prompt.image_analysis = NoImageText

\* C22: every case in the evidence of the diagnosis prompt is cut to the
\* preview length (and the mark "..." of the cut), however long its
\* description is.
C22_EvidenceBounded ==
    (sess_call.made /\ sess_call.fn = "quick_diagnosis" /\ sess_call.prompted) =>
        /\ \A i \in 1..Len(sess_call.prompt.similar_cases) :
               Len(sess_call.prompt.similar_cases[i].accident_description)
                   <= DescriptionPreview + 1
        /\ \A i \in 1..Len(sess_call.prompt.reference_cases) :
               Len(sess_call.prompt.reference_cases[i].accident_description)
                   <= DescriptionPreview + 1

\* ------------------------------------------------------------------------
\* Properties of the functions of utils.py
\* ------------------------------------------------------------------------

\* The places of a string where a run of digits starts, and the number the
\* run that starts at i spells.
RunStarts(t) ==
    { i \in 1..Len(t) : IsDigit(t[i]) /\ (i = 1 \/ ~IsDigit(t[i - 1])) }
RunEnd(t, i) ==
    CHOOSE j \in i..Len(t) :
        /\ \A k \in i..j : IsDigit(t[k])
        /\ (j = Len(t) \/ ~IsDigit(t[j + 1]))
RECURSIVE Pow10(_)
Pow10(n) == IF n = 0 THEN 1 ELSE 10 * Pow10(n - 1)
RECURSIVE SumOver(_, _, _, _)
SumOver(t, i, k, j) ==
    IF k > j THEN 0
    ELSE ((CHOOSE d \in 0..9 : Digits[d + 1] = t[k]) * Pow10(j - k)) + SumOver(t, i, k + 1, j)
RunValue(t, i) == SumOver(t, i, i, RunEnd(t, i))
NthStart(t, n) ==
    CHOOSE i \in RunStarts(t) : Cardinality({ j \in RunStarts(t) : j < i }) = n - 1

\* C24: extract_fault_ratio returns the first two integers of the string,
\* in order, whatever they sum to; with fewer than two integers, or an
\* argument that is no string, it returns (None, None).
C24_FaultRatioExtraction ==
    (util_call.made /\ util_call.fn = "extract_fault_ratio") =>
        LET arg == util_call.input
            t == arg.text
        IN  IF arg.is_str /\ Cardinality(RunStarts(t)) >= 2
            THEN util_call.result = << [none |-> FALSE, value |-> RunValue(t, NthStart(t, 1))],
                                       [none |-> FALSE, value |-> RunValue(t, NthStart(t, 2))] >>
            ELSE util_call.result = << [none |-> TRUE], [none |-> TRUE] >>

\* "70 : 30" gave (70, 30).
C24_Witness ==
    /\ util_call.made /\ util_call.fn = "extract_fault_ratio"
    /\ util_call.input = [is_str |-> TRUE, text |-> <<"7", "0", " ", ":", " ", "3", "0">>]
    /\ util_call.result = << [none |-> FALSE, value |-> 70], [none |-> FALSE, value |-> 30] >>

\* A text is in normal form: no whitespace at its ends, no line break, no
\* whitespace but single spaces, no bullet marker "@ ".
NormalForm(t) ==
    /\ t # << >> => (t[1] \notin {" ", "\t", "\n", "\r"} /\ t[Len(t)] \notin {" ", "\t", "\n", "\r"})
    /\ \A i \in 1..Len(t) : t[i] \notin {"\n", "\r", "\t"}
    /\ \A i \in 1..(Len(t) - 1) : ~(t[i] = " " /\ t[i + 1] = " ")
    /\ \A i \in 1..(Len(t) - 1) : ~(t[i] = "@" /\ t[i + 1] = " ")

CleanTextTestPasses ==
    (util_call.made /\ util_call.fn = "clean_text" /\ util_call.input = Some(TestText)) =>
        util_call.result = <<"a", " ", "b", " ", "c", ".">>

====
